---- MODULE Spec2Model ----
(***************************************************************************)
(* merge-with-label: webhook ingress, JetStream work queue, worker and     *)
(* pull-request reconciler.                                                *)
(*                                                                         *)
(* Time is the wall clock of the processes, counted in ticks of half a     *)
(* second; Unix timestamps and RFC3339 strings keep whole seconds.         *)
(* Durations of the settings are given in ticks.                           *)
(* Remote calls (GitHub, KV, JetStream) may fail; a handler invocation is  *)
(* one atomic step whose remote outcomes are inputs of the step.           *)
(***************************************************************************)
EXTENDS Integers, Sequences, FiniteSets, TLC

VARIABLES
  now,             \* wall clock
  rateLimitKV,     \* rate-limit bucket: md5(fingerprint) -> unix time of last enqueue
  dupWindow,       \* JetStream duplicate tracking: msg id -> time it was first seen
  msgs,            \* the stream: every message ever stored, with its consumer state
  closed,          \* Consume has returned (close signal taken)
  accessTokensKV,  \* access-tokens bucket entry of the repository
  configsKV,       \* configs bucket entry of the repository
  checkRunsKV,     \* check-runs bucket entry of (pull request, head sha)
  baseSha,         \* remote: current sha of the default branch
  obtained,        \* history: sha and time of the first run that got the config of baseSha
  callers,         \* ingress calls of QueueMessage in progress: position and header of each
  merged,          \* remote: the node ids of the pull requests GitHub has merged
  last             \* observable effects of the most recent step

vars == <<now, rateLimitKV, dupWindow, msgs, closed, accessTokensKV, configsKV,
          checkRunsKV, baseSha, obtained, callers, merged, last>>

-----------------------------------------------------------------------------
(* Bounds of the model *)

MaxTime == 4
MaxMsgs == 2
MaxSha == 3
MaxCallers == 2
DuplicateWindow == 8
TokenLifetime == 2

(* Settings (cmd/common.go), durations in ticks *)

RetryWait == 1
RateLimitInterval == 2
DurationToWaitAfterUpdateBranch == 2
MaxDeliver == 2
ConfigsBucketTTL == 3

MessageChannelSize == 1

TicksPerSecond == 2
NoTime == -1

\* the element of a singleton set; The({ f(x) : x \in {v} }) is f(v) with v computed once
The(S) == CHOOSE x \in S : TRUE

\* time.Time.Unix and time.Unix(sec, 0)
Unix(t) == t \div TicksPerSecond
FromUnix(sec) == sec * TicksPerSecond

-----------------------------------------------------------------------------
(* common.RegexItem / common.RegexSlice *)

Lower(s) ==
  CASE s = "Merge" -> "merge"
    [] s = "CI" -> "ci"
    [] s = "ACME/svc" -> "acme/svc"
    [] s = "Alice" -> "alice"
    [] s = "Dependabot" -> "dependabot"
    [] s = "NO-MERGE" -> "no-merge"
    [] s = "WIP" -> "wip"
    [] OTHER -> s

EqualFold(a, b) == Lower(a) = Lower(b)

\* pairs <<t, s>> of model strings where t occurs inside s (t # s)
SubstringPairs ==
  { <<"lint", "eslint">>, <<"ci", "ci/build">>, <<"merge", "automerge">>,
    <<"acme/svc", "acme/svc2">>, <<"bob", "bobby">>,
    <<"dependabot", "dependabot[bot]">>, <<"no-merge", "no-merge-until-now">> }

\* regexp.MatchString of the pattern compiled from text (unanchored search)
RegexMatchString(text, s) ==
  CASE text = ".*" -> TRUE
    [] text = "" -> TRUE
    [] text = "acme/.*" -> s \in {"acme/svc", "acme/old", "acme/svc2"}
    [] text = "^ci$" -> s = "ci"
    [] text = "chore:.+" -> s = "chore: bump"
    [] text = "no-merge-.+" -> s = "no-merge-until-now"
    [] OTHER -> (s = text) \/ (<<text, s>> \in SubstringPairs)

Equal(text, s) == EqualFold(s, text) \/ RegexMatchString(text, s)

ContainsOneOf(sl, items) ==
  LET hits == { h \in (1..Len(items)) \X (1..Len(sl)) : Equal(sl[h[2]], items[h[1]]) }
  IN IF hits = {} THEN ""
     ELSE LET f == CHOOSE h \in hits :
                     \A g \in hits : h[1] < g[1] \/ (h[1] = g[1] /\ h[2] <= g[2])
          IN sl[f[2]]

-----------------------------------------------------------------------------
(* common.QueueMessage, common.DelayMessageIfNeeded and the stream *)

Md5Hex(msgID) == <<"md5", msgID>>

\* Time.Format(time.RFC3339) keeps whole seconds; time.Parse reads them back
FormatRFC3339(t) == [layout |-> "RFC3339", sec |-> Unix(t)]
ParseRFC3339(v) == FromUnix(v.sec)
NoHeader == [layout |-> "", sec |-> 0]

\* fmt.Sprintf("push.%d.%s", ...) and fmt.Sprintf("pull_request.%d.%s.%d", ...)
PushFingerprint(kind, installationID, nodeID) == <<kind, installationID, nodeID>>
PullRequestFingerprint(installationID, nodeID, number) ==
  <<"pull_request", installationID, nodeID, number>>

\* the stream binds the subjects pull_request.> and push.>
StreamSubjects == {"pull_request", "push"}

\* nats.Msg as stored in the stream together with its consumer-side state
StoredMsg(subject, header, data, t) ==
  [ kind |-> subject, Header |-> header, Data |-> data,
    st |-> "pending", deliveries |-> 0, availableAt |-> t,
    pubAt |-> t, seen |-> FALSE ]

\* JetStream publish: a message whose Nats-Msg-Id was seen inside the duplicate
\* window is acknowledged but not stored
\* and a message on a subject no stream binds is not stored either; the asynchronous
\* publish reports neither to its caller
PublishMsgAsync(q, subject, header, data, t) ==
  LET id == header.MsgId
      dup == id # <<>> /\ id[1] \in DOMAIN q.dup /\ t - q.dup[id[1]] < DuplicateWindow
  IN IF subject \notin StreamSubjects THEN [q EXCEPT !.pubs = @ + 1]
     ELSE IF dup THEN [q EXCEPT !.pubs = @ + 1, !.suppressed = @ + 1]
     ELSE [q EXCEPT !.pubs = @ + 1,
                    !.msgs = Append(@, StoredMsg(subject, header, data, t)),
                    !.dup = IF id = <<>> THEN @
                            ELSE [k \in DOMAIN @ \cup {id[1]} |-> IF k = id[1] THEN t ELSE @[k]]]

\* the stream and the rate-limit bucket as one call sees them, with the counts of its
\* publish calls, suppressed duplicates and KV operations
Queue(kv, dup, ms) ==
  [kv |-> kv, dup |-> dup, msgs |-> ms, pubs |-> 0, suppressed |-> 0, kvOps |-> 0]

KVGet(kv, key) == IF key \in DOMAIN kv THEN kv[key] ELSE NoTime
KVPut(kv, key, v) == [k \in DOMAIN kv \cup {key} |-> IF k = key THEN v ELSE kv[k]]

\* fail names the remote step of this call that fails ("none", "kvget", "publish",
\* "kvput"); the result is [q, err]
QueueMessage(q, interval, subject, msgID, msg, t, fail) ==
  LET msgIDHash == Md5Hex(msgID)
      q1 == [q EXCEPT !.kvOps = @ + 1]
      entry == KVGet(q.kv, msgIDHash)
      lastMessageSendTime == FromUnix(entry)
      diff == IF entry = NoTime THEN -1
              ELSE (lastMessageSendTime + interval) - t
      header == IF diff > 0
                THEN [MsgId |-> <<msgIDHash>>, DelayUntil |-> FormatRFC3339(t + diff)]
                ELSE [MsgId |-> <<>>, DelayUntil |-> NoHeader]
      q2 == PublishMsgAsync(q1, subject, header, msg, t)
      q3 == [q2 EXCEPT !.kv = KVPut(@, msgIDHash, Unix(t)), !.kvOps = @ + 1]
  IN CASE fail = "kvget" -> [q |-> q1, err |-> TRUE]
       [] fail = "publish" -> [q |-> q1, err |-> TRUE]
       [] fail = "kvput" -> [q |-> [q2 EXCEPT !.kvOps = @ + 1], err |-> TRUE]
       [] OTHER -> [q |-> q3, err |-> FALSE]

\* the header QueueMessage builds from the rate-limit entry it read
QueueMessageHeader(entry, interval, msgIDHash, t) ==
  IF entry # NoTime /\ (FromUnix(entry) + interval) - t > 0
  THEN [ MsgId |-> <<msgIDHash>>,
         DelayUntil |-> FormatRFC3339(t + ((FromUnix(entry) + interval) - t)) ]
  ELSE [MsgId |-> <<>>, DelayUntil |-> NoHeader]

AckOp(op, delay) == [op |-> op, delay |-> delay]
NoAck == AckOp("none", 0)

\* the header is not looked at
DelayMessageIfNeeded_NeverDelays(m, t) == NoAck

\* returns the acknowledgement it issued, op "none" when the message may proceed
DelayMessageIfNeeded(m, t) ==
  LET delayUntilValue == m.Header.DelayUntil
  IN IF delayUntilValue.layout = "" THEN NoAck
     ELSE IF delayUntilValue.layout # "RFC3339" THEN AckOp("Nak", 0)
     ELSE LET diff == ParseRFC3339(delayUntilValue) - t
          IN IF diff > 0 THEN AckOp("NakWithDelay", diff) ELSE NoAck

\* a message the consumer gets no more: the work-queue stream deletes an acknowledged
\* message, and a message delivered MaxDeliver times is not delivered again; what the
\* model keeps of it is the record of its publication and of its first handling
Finished(m, st) ==
  [m EXCEPT !.st = st, !.Header = [MsgId |-> <<>>, DelayUntil |-> NoHeader],
            !.availableAt = 0]

Acknowledge_NakDrops(m, ack, t) ==
  IF ack.op = "Ack" THEN Finished(m, "acked") ELSE Finished(m, "dropped")

\* consumer state of a delivered message after the acknowledgement ack at time t
Acknowledge(m, ack, t) ==
  CASE ack.op = "Ack" -> Finished(m, "acked")
    [] ack.op \in {"Nak", "NakWithDelay"} ->
         IF m.deliveries >= MaxDeliver THEN Finished(m, "dropped")
         ELSE [m EXCEPT !.st = "pending", !.availableAt = t + ack.delay]
    [] OTHER -> m

-----------------------------------------------------------------------------
(* Policy config: ConfigV1, parseConfig, defaultConfig, the configs cache *)

EmptyIgnore == [IgnoreFromUsers |-> <<>>, IgnoreWithTitles |-> <<>>, ignoreWithLabels |-> <<>>]

\* a policy file as written: the YAML keys of one document.  ignoreconfig is the
\* key under which yaml.v3 decodes the embedded IgnoreConfig struct
PolicyFile(version, mergeLabels, requiredChecks, linear, deleteBranch, updateLabels) ==
  [ version |-> version,
    merge |-> [ labels |-> mergeLabels, strategy |-> "squash", requiredApprovals |-> 0,
                requireApprovalsFrom |-> <<>>, requiredChecks |-> requiredChecks,
                requireLinearHistory |-> linear, deleteBranch |-> deleteBranch,
                ignoreFromUsers |-> <<>>, ignoreWithTitles |-> <<>>,
                ignoreWithLabels |-> <<>>, ignoreconfig |-> EmptyIgnore ],
    update |-> [ labels |-> updateLabels,
                 ignoreFromUsers |-> <<"dependabot">>, ignoreWithTitles |-> <<>>,
                 ignoreWithLabels |-> <<>>, ignoreconfig |-> EmptyIgnore ] ]

\* yaml.Unmarshal into IgnoreConfig: exported fields only
DecodeIgnoreConfig(y) ==
  [ IgnoreFromUsers |-> y.IgnoreFromUsers, IgnoreWithTitles |-> y.IgnoreWithTitles,
    ignoreWithLabels |-> <<>> ]

\* yaml.Unmarshal(buf, &cfg) for ConfigV1: tagged fields by their key, the embedded
\* structs (no inline flag) by the lower-cased type name
DecodeConfigV1(file) ==
  [ Version |-> 0,
    Merge |-> [ Labels |-> file.merge.labels, Strategy |-> file.merge.strategy,
                RequiredApprovals |-> file.merge.requiredApprovals,
                RequireApprovalsFrom |-> file.merge.requireApprovalsFrom,
                RequiredChecks |-> file.merge.requiredChecks,
                RequireLinearHistory |-> file.merge.requireLinearHistory,
                DeleteBranch |-> file.merge.deleteBranch,
                IgnoreConfig |-> DecodeIgnoreConfig(file.merge.ignoreconfig) ],
    Update |-> [ Labels |-> file.update.labels,
                 IgnoreConfig |-> DecodeIgnoreConfig(file.update.ignoreconfig) ] ]

defaultConfig ==
  DecodeConfigV1(PolicyFile(1, <<"merge">>, <<".*">>, FALSE, TRUE, <<"update-branch">>))

\* every version is decoded as version 1
parseConfig_AnyVersion(file) ==
  [err |-> FALSE, cfg |-> [DecodeConfigV1(file) EXCEPT !.Version = 1]]

\* [err, cfg]
parseConfig(file) ==
  IF file.version = 1
  THEN [err |-> FALSE, cfg |-> [DecodeConfigV1(file) EXCEPT !.Version = 1]]
  ELSE [err |-> TRUE, cfg |-> defaultConfig]

\* json.Marshal / json.Unmarshal of cachedConfig: exported fields, embedded structs flattened
JsonRoundTrip(cfg) ==
  [cfg EXCEPT !.Merge.IgnoreConfig.ignoreWithLabels = <<>>,
              !.Update.IgnoreConfig.ignoreWithLabels = <<>>]

\* the files of the repository's history: the default branch at sha k holds
\* PolicyFiles[k] (status 404: no file)
NoFile == [status |-> 404, file |-> PolicyFile(0, <<>>, <<>>, FALSE, FALSE, <<>>)]
File(f) == [status |-> 200, file |-> f]

PolicyFiles ==
  << NoFile,
     File(PolicyFile(1, <<"merge">>, <<"lint", "ci">>, FALSE, TRUE, <<"update-branch">>)),
     File(PolicyFile(1, <<"merge">>, <<>>, FALSE, FALSE, <<"update-branch">>)),
     File(PolicyFile(2, <<"merge">>, <<".*">>, FALSE, TRUE, <<"update-branch">>)),
     File(PolicyFile(1, <<"merge">>, <<"^ci$">>, TRUE, FALSE, <<>>)),
     File(PolicyFile(1, <<>>, <<>>, FALSE, FALSE, <<>>)),
     File([ PolicyFile(1, <<"merge">>, <<>>, FALSE, FALSE, <<"update-branch">>)
              EXCEPT !.merge.ignoreWithLabels = <<"dont-update">>,
                     !.update.ignoreWithLabels = <<"dont-update">> ]) >>

PolicyFileAt(sha) == PolicyFiles[((sha - 1) % Len(PolicyFiles)) + 1]

-----------------------------------------------------------------------------
(* Handler context: the KV entries and the trace of remote calls of one invocation.
   e.fail is the set of remote steps that fail in this invocation. *)

\* ok: the call is answered with success
RemoteCall(c, e, op, token, title) ==
  [c EXCEPT !.calls = Append(@, [op |-> op, title |-> title, exp |-> token.ExpiresAt,
                                 ok |-> op \notin e.fail])]

\* github.MergePullRequest / github.UpdatePullRequest: the mutation with its variables
\* pullRequestId and expectedHeadOid
MutationCall(c, e, op, token, pullRequestID, expectedHeadOid) ==
  [c EXCEPT !.calls = Append(@, [op |-> op, title |-> "", exp |-> token.ExpiresAt,
                                 ok |-> op \notin e.fail, pullRequestId |-> pullRequestID,
                                 expectedHeadOid |-> expectedHeadOid])]

NoToken == [Token |-> NoTime, ExpiresAt |-> NoTime]

\* github.GetAccessToken: the installation token minted at time t
MintedToken(t) == [Token |-> Unix(t), ExpiresAt |-> FromUnix(Unix(t)) + TokenLifetime]

\* [c, err, token]
createNewAccessToken(c, e, t) ==
  LET c1 == RemoteCall(c, e, "GetAccessToken", NoToken, "")
      accessToken == MintedToken(t)
  IN IF "GetAccessToken" \in e.fail THEN [c |-> c1, err |-> TRUE, token |-> NoToken]
     ELSE IF "tokenKVPut" \in e.fail THEN [c |-> c1, err |-> TRUE, token |-> NoToken]
     ELSE [c |-> [c1 EXCEPT !.tok = <<accessToken>>], err |-> FALSE, token |-> accessToken]

getAccessToken(c, e, t) ==
  IF "tokenKVGet" \in e.fail THEN [c |-> c, err |-> TRUE, token |-> NoToken]
  ELSE IF c.tok = <<>> THEN createNewAccessToken(c, e, t)
  ELSE LET cachedToken == c.tok[1]
       IN IF cachedToken.ExpiresAt < t THEN createNewAccessToken(c, e, t)
          ELSE [c |-> c, err |-> FALSE, token |-> cachedToken]

\* a configs bucket entry lives ConfigsBucketTTL after its put
ConfigsKVGet_AlwaysMiss(kv, t) == <<>>

ConfigsKVGet(kv, t) == IF kv # <<>> /\ t < kv[1].putAt + ConfigsBucketTTL THEN kv ELSE <<>>

\* [c, err, cfg, nil]
getLatestConfig(c, e, token, sha, t) ==
  LET c1 == RemoteCall(c, e, "GetConfig", token, "")
      remote == PolicyFileAt(sha)
      parsed == parseConfig(remote.file)
      none == [c |-> c1, err |-> TRUE, cfg |-> defaultConfig, nil |-> TRUE]
  IN IF "GetConfig" \in e.fail THEN none
     ELSE IF remote.status = 404
          THEN [ c |-> [c1 EXCEPT !.cfgFrom = "default"], err |-> FALSE,
                 cfg |-> defaultConfig, nil |-> FALSE ]
     ELSE IF parsed.err THEN none
     ELSE IF "configsKVPut" \in e.fail THEN none
     ELSE [ c |-> [c1 EXCEPT !.cfgs = << [SHA |-> sha, cfg |-> JsonRoundTrip(parsed.cfg),
                                         putAt |-> t] >>,
                             !.cfgFrom = "file"],
            err |-> FALSE, cfg |-> parsed.cfg, nil |-> FALSE ]

getConfig(c, e, token, sha, t) ==
  LET entry == ConfigsKVGet(c.cfgs, t)
  IN IF sha = 0 THEN [c |-> c, err |-> FALSE, cfg |-> defaultConfig, nil |-> TRUE]
     ELSE IF "configsKVGet" \in e.fail
          THEN [c |-> c, err |-> TRUE, cfg |-> defaultConfig, nil |-> TRUE]
     ELSE IF entry = <<>> THEN getLatestConfig(c, e, token, sha, t)
     ELSE IF entry[1].SHA # sha THEN getLatestConfig(c, e, token, sha, t)
     ELSE [c |-> [c EXCEPT !.cfgFrom = "cache"], err |-> FALSE, cfg |-> entry[1].cfg,
           nil |-> FALSE]

\* [c, err, nil, sess]; nil: (nil, nil) was returned, the caller skips silently
NoSession == [AccessToken |-> NoToken, Config |-> defaultConfig]

\* what follows the access token in getSession
sessionWithToken(a, e, sha, t) ==
  The({ IF "GetLatestBaseCommitSha" \in e.fail
        THEN [c |-> c1, err |-> TRUE, nil |-> TRUE, sess |-> NoSession]
        ELSE IF sha = 0 THEN [c |-> c1, err |-> FALSE, nil |-> TRUE, sess |-> NoSession]
        ELSE The({ IF g.err THEN [c |-> g.c, err |-> TRUE, nil |-> TRUE, sess |-> NoSession]
                   ELSE IF g.nil
                        THEN [c |-> g.c, err |-> FALSE, nil |-> TRUE, sess |-> NoSession]
                   ELSE IF Len(g.cfg.Merge.Labels) = 0 /\ Len(g.cfg.Update.Labels) = 0
                        THEN [c |-> g.c, err |-> FALSE, nil |-> TRUE, sess |-> NoSession]
                   ELSE [ c |-> g.c, err |-> FALSE, nil |-> FALSE,
                          sess |-> [AccessToken |-> a.token, Config |-> g.cfg] ]
                   : g \in { getConfig(c1, e, a.token, sha, t) } })
        : c1 \in { RemoteCall(a.c, e, "GetLatestBaseCommitSha", a.token, "") } })

getSession(c, e, sha, t) ==
  The({ IF a.err THEN [c |-> a.c, err |-> TRUE, nil |-> TRUE, sess |-> NoSession]
        ELSE sessionWithToken(a, e, sha, t)
        : a \in { getAccessToken(c, e, t) } })

-----------------------------------------------------------------------------
(* Check runs *)

hashForKV(s) == <<"sha512", s>>

CheckRunStep(n) ==
  CASE n = 1 -> "CheckRun1" [] n = 2 -> "CheckRun2" [] OTHER -> "CheckRun3"

\* the data of GitHub's answer to the createCheckRun / updateCheckRun mutation: the
\* selection asks for clientMutationId alone, which the request did not send
CheckRunResponse(op) ==
  IF op = "CreateCheckRun" THEN [createCheckRun |-> [clientMutationId |-> "null"]]
  ELSE [updateCheckRun |-> [clientMutationId |-> "null"]]

\* json.Unmarshal(buf, &response) with response.ClientMutationID tagged clientMutationId:
\* the key is looked up at the top level of the data
ClientMutationID(data) ==
  IF "clientMutationId" \in DOMAIN data THEN data.clientMutationId ELSE ""

\* the check-runs bucket holds <<key, check run id>> pairs, one per key
CheckRunsKVGet(kv, key) == { p \in kv : p[1] = key }

\* [c, err]; the n-th check-run write of the invocation fails remotely when
\* CheckRunStep(n) is in e.fail.  In the call recorded, answered says that GitHub
\* performed the mutation, ok that the write returned nil
CreateOrUpdateCheckRun(c, e, token, pullRequestNodeID, sha, title) ==
  LET key == hashForKV(<<pullRequestNodeID, sha>>)
      n == c.nCR + 1
      c0 == [c EXCEPT !.nCR = n]
      entry == CheckRunsKVGet(c.crs, key)
      op == IF entry = {} \/ (\A p \in entry : p[2] = "") THEN "CreateCheckRun"
            ELSE "UpdateCheckRun"
      checkRunID == ClientMutationID(CheckRunResponse(op))
      c1 == [c0 EXCEPT !.calls = Append(@, [op |-> op, title |-> title,
                                            exp |-> token.ExpiresAt,
                                            ok |-> e.fail \cap {CheckRunStep(n), "checkRunsKVPut"} = {},
                                            answered |-> CheckRunStep(n) \notin e.fail])]
  IN IF sha = "" THEN [c |-> c, err |-> FALSE]
     ELSE IF "checkRunsKVGet" \in e.fail THEN [c |-> c0, err |-> TRUE]
     ELSE IF CheckRunStep(n) \in e.fail THEN [c |-> c1, err |-> TRUE]
     ELSE IF "checkRunsKVPut" \in e.fail THEN [c |-> c1, err |-> TRUE]
     ELSE [c |-> [c1 EXCEPT !.crs = (@ \ entry) \cup {<<key, checkRunID>>}], err |-> FALSE]

-----------------------------------------------------------------------------
(* Skip conditions (should_skip.go) *)

statesThatAreSuccess_AndFailure == {"NEUTRAL", "SUCCESS", "", "FAILURE", "PENDING"}

statesThatAreSuccess == {"NEUTRAL", "SUCCESS", ""}

SkipResult(skip, title, err, delay) ==
  [SkipAction |-> skip, Title |-> title, err |-> err, delay |-> delay]
NoSkip == SkipResult(FALSE, "", "nil", 0)

IsUserIgnored(cfg, s) == ContainsOneOf(cfg.IgnoreFromUsers, <<s>>)
IsTitleIgnored(cfg, s) == ContainsOneOf(cfg.IgnoreWithTitles, <<s>>)
IsLabelIgnored(cfg, s) == ContainsOneOf(cfg.ignoreWithLabels, <<s>>)

shouldSkipBecauseOfTitle(cfg, details) ==
  IF IsTitleIgnored(cfg, details.Title) # ""
  THEN SkipResult(TRUE, "title is in ignore list", "nil", 0) ELSE NoSkip

shouldSkipBecauseOfLabel(cfg, details) ==
  IF \E i \in 1..Len(details.Labels) : IsLabelIgnored(cfg, details.Labels[i]) # ""
  THEN SkipResult(TRUE, "label is in ignore list", "nil", 0) ELSE NoSkip

shouldSkipBecauseOfAuthorName(cfg, details) ==
  IF IsUserIgnored(cfg, details.Author) = "" THEN NoSkip
  ELSE SkipResult(TRUE, "author is in ignore list", "nil", 0)

\* the flag is not looked at
shouldSkipBecauseOfHistory_Always(cfg, details) ==
  IF details.AheadBy = 0 THEN NoSkip
  ELSE SkipResult(TRUE, "a linear history is required", "nil", 0)

shouldSkipBecauseOfHistory(cfg, details) ==
  IF ~cfg.RequireLinearHistory THEN NoSkip
  ELSE IF details.AheadBy = 0 THEN NoSkip
  ELSE SkipResult(TRUE, "a linear history is required", "nil", 0)

\* one matching approver is enough
shouldSkipBecauseOfReviews_AnyListed(cfg, details) ==
  IF cfg.RequiredApprovals > 0 /\ cfg.RequiredApprovals > Len(details.ApprovedBy)
  THEN SkipResult(TRUE, "missing required approvals", "nil", 0)
  ELSE IF /\ Len(cfg.RequireApprovalsFrom) > 0
          /\ ~\E i \in 1..Len(cfg.RequireApprovalsFrom), j \in 1..Len(details.ApprovedBy) :
                Equal(cfg.RequireApprovalsFrom[i], details.ApprovedBy[j])
  THEN SkipResult(TRUE, "approval(s) missing", "nil", 0)
  ELSE NoSkip

shouldSkipBecauseOfReviews(cfg, details) ==
  LET authorsMissing ==
        { i \in 1..Len(cfg.RequireApprovalsFrom) :
            ~\E j \in 1..Len(details.ApprovedBy) :
                Equal(cfg.RequireApprovalsFrom[i], details.ApprovedBy[j]) }
  IN IF cfg.RequiredApprovals > 0 /\ cfg.RequiredApprovals > Len(details.ApprovedBy)
     THEN SkipResult(TRUE, "missing required approvals", "nil", 0)
     ELSE IF Len(cfg.RequireApprovalsFrom) > 0 /\ authorsMissing # {}
     THEN SkipResult(TRUE, "approval(s) missing", "nil", 0)
     ELSE NoSkip

\* required entries (by index) that no check matches
checksMissing(cfg, details) ==
  { i \in 1..Len(cfg.RequiredChecks) :
      ~\E name \in DOMAIN details.CheckStates : Equal(cfg.RequiredChecks[i], name) }

\* (check name, required entry) pairs that matched and are not in a success state
checksNotSucceeded(cfg, details) ==
  { p \in (DOMAIN details.CheckStates) \X (1..Len(cfg.RequiredChecks)) :
      /\ Equal(cfg.RequiredChecks[p[2]], p[1])
      /\ details.CheckStates[p[1]] \notin statesThatAreSuccess }

shouldSkipBecauseOfChecks(cfg, details, t) ==
  LET diff == (details.LastCommitTime + DurationToWaitAfterUpdateBranch) - t
  IN IF Len(cfg.RequiredChecks) = 0 THEN NoSkip
     ELSE IF checksMissing(cfg, details) # {}
     THEN SkipResult(TRUE, "check(s) missing", "nil", 0)
     ELSE IF checksNotSucceeded(cfg, details) # {}
     THEN SkipResult(TRUE, "check(s) did not succeeded", "nil", 0)
     ELSE IF diff > 0 THEN SkipResult(FALSE, "", "pushback", diff)
     ELSE NoSkip

\* the orders in which a range over the map details.CheckStates can yield its names
RangeOrders(details) ==
  { order \in [1..Cardinality(DOMAIN details.CheckStates) -> DOMAIN details.CheckStates] :
      \A i, j \in DOMAIN order : order[i] = order[j] => i = j }

\* the checkInfo entries appended for the required checks from the i-th on, the map
\* yielding its names in the order given: <<name, check>>
RECURSIVE checksNotSucceededIn(_, _, _, _)
checksNotSucceededIn(cfg, details, order, i) ==
  IF i > Len(cfg.RequiredChecks) THEN <<>>
  ELSE [ k \in 1..Len(SelectSeq(order, LAMBDA name :
                                  /\ Equal(cfg.RequiredChecks[i], name)
                                  /\ details.CheckStates[name] \notin statesThatAreSuccess))
           |-> << SelectSeq(order, LAMBDA name :
                               /\ Equal(cfg.RequiredChecks[i], name)
                               /\ details.CheckStates[name] \notin statesThatAreSuccess)[k],
                  cfg.RequiredChecks[i] >> ]
       \o checksNotSucceededIn(cfg, details, order, i + 1)

\* the required checks for which no name of the map was found, in the order given
checksMissingIn(cfg, details, order) ==
  SelectSeq([i \in 1..Len(cfg.RequiredChecks) |-> i],
            LAMBDA i : ~\E k \in 1..Len(order) : Equal(cfg.RequiredChecks[i], order[k]))

\* only the first name the map yields is looked at for each required check
shouldSkipBecauseOfChecksIn_FirstNameOnly(cfg, details, t, order) ==
  LET diff == (details.LastCommitTime + DurationToWaitAfterUpdateBranch) - t
      first == IF order = <<>> THEN <<>> ELSE <<order[1]>>
  IN IF Len(cfg.RequiredChecks) = 0 THEN [result |-> NoSkip, lines |-> <<>>]
     ELSE IF checksMissingIn(cfg, details, first) # <<>>
     THEN [ result |-> SkipResult(TRUE, "check(s) missing", "nil", 0),
            lines |-> checksMissingIn(cfg, details, first) ]
     ELSE IF checksNotSucceededIn(cfg, details, first, 1) # <<>>
     THEN [ result |-> SkipResult(TRUE, "check(s) did not succeeded", "nil", 0),
            lines |-> checksNotSucceededIn(cfg, details, first, 1) ]
     ELSE IF diff > 0 THEN [result |-> SkipResult(FALSE, "", "pushback", diff), lines |-> <<>>]
     ELSE [result |-> NoSkip, lines |-> <<>>]

\* shouldSkipBecauseOfChecks with the range over details.CheckStates in the order given:
\* the result and the lines of the summary that name checks
shouldSkipBecauseOfChecksIn(cfg, details, t, order) ==
  LET diff == (details.LastCommitTime + DurationToWaitAfterUpdateBranch) - t
  IN IF Len(cfg.RequiredChecks) = 0 THEN [result |-> NoSkip, lines |-> <<>>]
     ELSE IF checksMissingIn(cfg, details, order) # <<>>
     THEN [ result |-> SkipResult(TRUE, "check(s) missing", "nil", 0),
            lines |-> checksMissingIn(cfg, details, order) ]
     ELSE IF checksNotSucceededIn(cfg, details, order, 1) # <<>>
     THEN [ result |-> SkipResult(TRUE, "check(s) did not succeeded", "nil", 0),
            lines |-> checksNotSucceededIn(cfg, details, order, 1) ]
     ELSE IF diff > 0 THEN [result |-> SkipResult(FALSE, "", "pushback", diff), lines |-> <<>>]
     ELSE [result |-> NoSkip, lines |-> <<>>]

NotMerging(title) ==
  CASE title = "title is in ignore list" -> "not merging: title is in ignore list"
    [] title = "label is in ignore list" -> "not merging: label is in ignore list"
    [] title = "author is in ignore list" -> "not merging: author is in ignore list"
    [] title = "a linear history is required" -> "not merging: a linear history is required"
    [] title = "missing required approvals" -> "not merging: missing required approvals"
    [] title = "approval(s) missing" -> "not merging: approval(s) missing"
    [] title = "check(s) missing" -> "not merging: check(s) missing"
    [] title = "check(s) did not succeeded" -> "not merging: check(s) did not succeeded"
    [] OTHER -> title

NotUpdating(title) ==
  CASE title = "title is in ignore list" -> "not updating: title is in ignore list"
    [] title = "label is in ignore list" -> "not updating: label is in ignore list"
    [] title = "author is in ignore list" -> "not updating: author is in ignore list"
    [] OTHER -> title

\* the loop runs to its end: the last condition that skips or fails decides
FirstDeciding_Last(results) ==
  LET hits == { i \in 1..Len(results) : results[i].err # "nil" \/ results[i].SkipAction }
  IN IF hits = {} THEN NoSkip
     ELSE results[CHOOSE i \in hits : \A j \in hits : i >= j]

\* the first condition of the list that skips or fails decides
FirstDeciding(results) ==
  LET hits == { i \in 1..Len(results) : results[i].err # "nil" \/ results[i].SkipAction }
  IN IF hits = {} THEN NoSkip
     ELSE results[CHOOSE i \in hits : \A j \in hits : i <= j]

shouldSkipMerge(cfg, details, t) ==
  LET result == FirstDeciding(<< shouldSkipBecauseOfTitle(cfg.Merge.IgnoreConfig, details),
                                 shouldSkipBecauseOfLabel(cfg.Merge.IgnoreConfig, details),
                                 shouldSkipBecauseOfAuthorName(cfg.Merge.IgnoreConfig, details),
                                 shouldSkipBecauseOfHistory(cfg.Merge, details),
                                 shouldSkipBecauseOfReviews(cfg.Merge, details),
                                 shouldSkipBecauseOfChecks(cfg.Merge, details, t) >>)
  IN [result EXCEPT !.Title = NotMerging(@)]

shouldSkipUpdate(cfg, details) ==
  LET result == FirstDeciding(<< shouldSkipBecauseOfTitle(cfg.Update.IgnoreConfig, details),
                                 shouldSkipBecauseOfLabel(cfg.Update.IgnoreConfig, details),
                                 shouldSkipBecauseOfAuthorName(cfg.Update.IgnoreConfig, details) >>)
  IN [result EXCEPT !.Title = NotUpdating(@)]

-----------------------------------------------------------------------------
(* Pull-request reconciler (pull_request_worker.go) *)

StepResult(c, stopLogic, did, err, delay) ==
  [c |-> c, stopLogic |-> stopLogic, did |-> did, err |-> err, delay |-> delay]

\* the "updated" check-run is not written
updateBranch_NoUpdatedWrite(called, e, tok, details) ==
  IF "UpdatePullRequest" \in e.fail
  THEN IF e.gql
       THEN StepResult(CreateOrUpdateCheckRun(called, e, tok, details.ID,
                                              details.LastCommitSha, "error during update").c,
                       FALSE, FALSE, "error", 0)
       ELSE StepResult(called, FALSE, FALSE, "error", 0)
  ELSE StepResult(called, FALSE, TRUE, "nil", 0)

\* updatePullRequest from the call of the mutation on
updateBranch(called, e, tok, details) ==
  IF "UpdatePullRequest" \in e.fail
  THEN IF e.gql
       THEN StepResult(CreateOrUpdateCheckRun(called, e, tok, details.ID,
                                              details.LastCommitSha, "error during update").c,
                       FALSE, FALSE, "error", 0)
       ELSE StepResult(called, FALSE, FALSE, "error", 0)
  ELSE The({ IF updated.err THEN StepResult(updated.c, FALSE, FALSE, "error", 0)
             ELSE StepResult(updated.c, FALSE, TRUE, "nil", 0)
             : updated \in { CreateOrUpdateCheckRun(called, e, tok, details.ID,
                                                    details.LastCommitSha, "updated") } })

stopWith_NoStop(w) ==
  IF w.err THEN StepResult(w.c, FALSE, FALSE, "error", 0)
  ELSE StepResult(w.c, FALSE, FALSE, "nil", 0)

\* the check run w was written for a decision not to act
stopWith(w) ==
  IF w.err THEN StepResult(w.c, FALSE, FALSE, "error", 0)
  ELSE StepResult(w.c, TRUE, FALSE, "nil", 0)

\* ahead_by is not looked at
updatePullRequest_IgnoresAheadBy(c, e, sess, details) ==
  IF Len(sess.Config.Update.Labels) = 0 THEN StepResult(c, FALSE, FALSE, "nil", 0)
  ELSE IF ContainsOneOf(sess.Config.Update.Labels, details.Labels) = ""
       THEN StepResult(c, FALSE, FALSE, "nil", 0)
  ELSE The({ IF updating.err
             THEN StepResult(updating.c, FALSE, FALSE, "error", 0)
             ELSE updateBranch(MutationCall(updating.c, e, "UpdatePullRequest",
                                            sess.AccessToken, details.ID,
                                            details.LastCommitSha),
                               e, sess.AccessToken, details)
             : updating \in { CreateOrUpdateCheckRun(c, e, sess.AccessToken,
                 details.ID, details.LastCommitSha, "updating") } })

\* (stopLogic, didUpdatePullRequest, err)
updatePullRequest(c, e, sess, details) ==
  IF Len(sess.Config.Update.Labels) = 0 THEN StepResult(c, FALSE, FALSE, "nil", 0)
  ELSE IF ContainsOneOf(sess.Config.Update.Labels, details.Labels) = ""
       THEN StepResult(c, FALSE, FALSE, "nil", 0)
  ELSE IF details.AheadBy = 0 THEN StepResult(c, FALSE, FALSE, "nil", 0)
  ELSE IF details.HasConflicts
       THEN The({ stopWith(w) : w \in { CreateOrUpdateCheckRun(c, e, sess.AccessToken,
                    details.ID, details.LastCommitSha,
                    "not updating: pull request has conflicts") } })
  ELSE The({ IF result.SkipAction
             THEN The({ stopWith(w) : w \in { CreateOrUpdateCheckRun(c, e, sess.AccessToken,
                          details.ID, details.LastCommitSha, result.Title) } })
             ELSE The({ IF updating.err
                        THEN StepResult(updating.c, FALSE, FALSE, "error", 0)
                        ELSE updateBranch(MutationCall(updating.c, e, "UpdatePullRequest",
                                                       sess.AccessToken, details.ID,
                                                       details.LastCommitSha),
                                          e, sess.AccessToken, details)
                        : updating \in { CreateOrUpdateCheckRun(c, e, sess.AccessToken,
                            details.ID, details.LastCommitSha, "updating") } })
             : result \in { shouldSkipUpdate(sess.Config, details) } })

\* mergePullRequest from the call of the mutation on
mergeBranch(called, e, tok, details) ==
  IF "MergePullRequest" \in e.fail
  THEN IF e.gql
       THEN StepResult(CreateOrUpdateCheckRun(called, e, tok, details.ID,
                                              details.LastCommitSha, "error during merge").c,
                       FALSE, FALSE, "error", 0)
       ELSE StepResult(called, FALSE, FALSE, "error", 0)
  ELSE StepResult(called, FALSE, TRUE, "nil", 0)

\* the result of the skip conditions is not looked at
mergePullRequest_IgnoresSkip(c, e, sess, details, t) ==
  IF ContainsOneOf(sess.Config.Merge.Labels, details.Labels) = ""
  THEN StepResult(c, FALSE, FALSE, "nil", 0)
  ELSE The({ IF merging.err THEN StepResult(merging.c, FALSE, FALSE, "error", 0)
             ELSE mergeBranch(MutationCall(merging.c, e, "MergePullRequest",
                                           sess.AccessToken, details.ID,
                                           details.LastCommitSha),
                              e, sess.AccessToken, details)
             : merging \in { CreateOrUpdateCheckRun(c, e, sess.AccessToken,
                 details.ID, details.LastCommitSha, "merging head into base") } })

\* (stopLogic, didMerge, err)
mergePullRequest(c, e, sess, details, t) ==
  IF ContainsOneOf(sess.Config.Merge.Labels, details.Labels) = ""
  THEN StepResult(c, FALSE, FALSE, "nil", 0)
  ELSE The({ IF result.err # "nil" THEN StepResult(c, FALSE, FALSE, result.err, result.delay)
             ELSE IF result.SkipAction
             THEN The({ stopWith(w) : w \in { CreateOrUpdateCheckRun(c, e, sess.AccessToken,
                          details.ID, details.LastCommitSha, result.Title) } })
             ELSE The({ IF merging.err THEN StepResult(merging.c, FALSE, FALSE, "error", 0)
                        ELSE mergeBranch(MutationCall(merging.c, e, "MergePullRequest",
                                                      sess.AccessToken, details.ID,
                                                      details.LastCommitSha),
                                         e, sess.AccessToken, details)
                        : merging \in { CreateOrUpdateCheckRun(c, e, sess.AccessToken,
                            details.ID, details.LastCommitSha, "merging head into base") } })
             : result \in { shouldSkipMerge(sess.Config, details, t) } })

IsOpen_Always(details) == TRUE

IsOpen(details) == details.State = "OPEN"

\* result of a handler: err is "nil", "error" or "pushback" (a pushBackError with
\* the delay); path names the return statement taken
RunResult(c, err, delay, path) == [c |-> c, err |-> err, delay |-> delay, path |-> path]

\* the head ref is deleted after every merge
mergeAndDelete_AlwaysDeletes(u, e, sess, details, t) ==
  The({ IF m.err # "nil" THEN RunResult(m.c, m.err, m.delay, "merge error")
        ELSE IF m.stopLogic THEN RunResult(m.c, "nil", 0, "merge stopped")
        ELSE IF m.did
             THEN RunResult(RemoteCall(m.c, e, "DeleteRef", sess.AccessToken, ""),
                            IF "DeleteRef" \in e.fail THEN "error" ELSE "nil", 0,
                            IF "DeleteRef" \in e.fail THEN "delete error"
                            ELSE "merged and deleted")
        ELSE RunResult(m.c, "nil", 0, "nothing to do")
        : m \in { mergePullRequest(u.c, e, sess, details, t) } })

\* runLogic after the update step u
mergeAndDelete(u, e, sess, details, t) ==
  The({ IF m.err # "nil" THEN RunResult(m.c, m.err, m.delay, "merge error")
        ELSE IF m.stopLogic THEN RunResult(m.c, "nil", 0, "merge stopped")
        ELSE IF m.did /\ sess.Config.Merge.DeleteBranch
             THEN RunResult(RemoteCall(m.c, e, "DeleteRef", sess.AccessToken, ""),
                            IF "DeleteRef" \in e.fail THEN "error" ELSE "nil", 0,
                            IF "DeleteRef" \in e.fail THEN "delete error"
                            ELSE "merged and deleted")
        ELSE RunResult(m.c, "nil", 0, IF m.did THEN "merged" ELSE "nothing to do")
        : m \in { mergePullRequest(u.c, e, sess, details, t) } })

\* runLogic from the fetch of the details on
reconcile(c1, e, sess, details, t) ==
  IF "GetPullRequestDetails" \in e.fail THEN RunResult(c1, "error", 0, "details error")
  ELSE IF ~IsOpen(details) THEN RunResult(c1, "nil", 0, "not open")
  ELSE IF details.LastCommitTime = NoTime \/ details.LastCommitSha = ""
       THEN RunResult(c1, "nil", 0, "no commits")
  ELSE The({ IF u.err # "nil" THEN RunResult(u.c, u.err, u.delay, "update error")
             ELSE IF u.stopLogic THEN RunResult(u.c, "nil", 0, "update stopped")
             ELSE IF u.did /\ ContainsOneOf(sess.Config.Merge.Labels, details.Labels) # ""
                  THEN RunResult(u.c, "pushback", DurationToWaitAfterUpdateBranch,
                                 "just updated")
             ELSE mergeAndDelete(u, e, sess, details, t)
             : u \in { updatePullRequest(c1, e, sess, details) } })

\* pullRequestWorker.runLogic; sha and details are what GitHub answers in this run
pullRequestRunLogic(c, e, sha, details, t) ==
  The({ IF s.err THEN RunResult(s.c, "error", 0, "session error")
        ELSE IF s.nil THEN RunResult(s.c, "nil", 0, "no session")
        ELSE reconcile(RemoteCall(s.c, e, "GetPullRequestDetails", s.sess.AccessToken, ""),
                       e, s.sess, details, t)
        : s \in { getSession(c, e, sha, t) } })

-----------------------------------------------------------------------------
(* handleMessage: the acknowledgement that follows the handler's result *)

AckForResult_AlwaysAck(err, delay) == AckOp("Ack", 0)

AckForResult_AlwaysRetryWait(err, delay) ==
  IF err # "nil" THEN AckOp("NakWithDelay", RetryWait) ELSE AckOp("Ack", 0)

AckForResult(err, delay) ==
  IF err # "nil"
  THEN AckOp("NakWithDelay", IF err = "pushback" THEN delay ELSE RetryWait)
  ELSE AckOp("Ack", 0)

-----------------------------------------------------------------------------
(* What GitHub answers: pull request details and the outcomes of remote calls *)

Details(state, labels, aheadBy, hasConflicts, sha, time, checkStates) ==
  [ ID |-> "PR_1", State |-> state, Labels |-> labels, AheadBy |-> aheadBy,
    HasConflicts |-> hasConflicts, LastCommitSha |-> sha, LastCommitTime |-> time,
    Title |-> "Fix bug", Author |-> "alice", ApprovedBy |-> <<>>,
    CheckStates |-> checkStates ]

NoChecks == [n \in {} |-> ""]
ChecksGreen == [n \in {"lint", "ci"} |-> IF n = "lint" THEN "SUCCESS" ELSE ""]
ChecksCiMissing == [n \in {"lint"} |-> "NEUTRAL"]
ChecksLintFailed == [n \in {"lint", "ci"} |-> IF n = "lint" THEN "FAILURE" ELSE "SUCCESS"]
ChecksFailedAndMissing == [n \in {"lint"} |-> "FAILURE"]
ChecksPending == [n \in {"lint", "ci"} |-> IF n = "ci" THEN "PENDING" ELSE "SUCCESS"]

LabelSets == { <<"merge">>, <<"update-branch">>, <<"update-branch", "merge">> }

\* commit times are whole seconds
OldCommit == 0
RecentCommit(t) == FromUnix(Unix(t))

OpenDetails(t) ==
  { Details("OPEN", l, a, FALSE, "head1", OldCommit, cs) :
      l \in LabelSets, a \in {0, 1},
      cs \in { NoChecks, ChecksGreen, ChecksCiMissing, ChecksLintFailed,
               ChecksFailedAndMissing } }
  \cup { Details("OPEN", l, 0, FALSE, "head1", RecentCommit(t), ChecksGreen) : l \in LabelSets }
  \cup { Details("OPEN", <<"update-branch", "merge">>, 1, TRUE, "head1", OldCommit, ChecksGreen),
         Details("OPEN", <<"merge", "dont-update">>, 0, FALSE, "head1", OldCommit, ChecksGreen),
         Details("OPEN", <<"dont-update", "update-branch">>, 1, FALSE, "head1", OldCommit,
                 ChecksGreen),
         Details("OPEN", <<"merge">>, 0, FALSE, "head1", OldCommit, ChecksPending),
         Details("OPEN", <<"merge">>, 0, FALSE, "head2", OldCommit, ChecksGreen),
         Details("OPEN", <<"update-branch">>, 1, FALSE, "head2", OldCommit, ChecksGreen) }

OtherDetails ==
  { Details("CLOSED", <<"update-branch", "merge">>, 1, FALSE, "head1", OldCommit, ChecksGreen),
    Details("MERGED", <<"merge">>, 0, FALSE, "head1", OldCommit, ChecksGreen),
    Details("OPEN", <<"merge">>, 0, FALSE, "", OldCommit, NoChecks),
    Details("OPEN", <<"merge">>, 0, FALSE, "head1", NoTime, NoChecks) }

NoDetails == Details("", <<>>, 0, FALSE, "", NoTime, NoChecks)

Env(fail, gql) == [fail |-> fail, gql |-> gql]
NoFailure == Env({}, FALSE)

\* one remote step of the run fails
ReconcilerEnvs ==
  { Env({f}, FALSE) : f \in { "GetPullRequestDetails", "CheckRun1", "CheckRun2",
                              "UpdatePullRequest", "MergePullRequest", "DeleteRef" } }
  \cup { Env({"UpdatePullRequest"}, TRUE), Env({"MergePullRequest"}, TRUE) }

\* the snapshots under which the failing steps are reached: one that updates, one
\* with conflicts, one that merges, one that is skipped for its checks, one that is closed
FailureDetails ==
  { Details("OPEN", <<"update-branch", "merge">>, 1, FALSE, "head1", OldCommit, ChecksGreen),
    Details("OPEN", <<"update-branch", "merge">>, 1, TRUE, "head1", OldCommit, ChecksGreen),
    Details("OPEN", <<"merge">>, 0, FALSE, "head1", OldCommit, ChecksGreen),
    Details("OPEN", <<"merge">>, 0, FALSE, "head1", OldCommit, ChecksFailedAndMissing),
    Details("CLOSED", <<"update-branch", "merge">>, 1, FALSE, "head1", OldCommit, ChecksGreen) }

\* <<details, env>>: every snapshot with all remote calls succeeding, and the failures
ReconcilerInputs(t) ==
  ((OpenDetails(t) \cup OtherDetails) \X {NoFailure}) \cup (FailureDetails \X ReconcilerEnvs)

\* cfgFrom: where the run got its config from ("none", "cache", "file", "default")
Context(tok, cfgs, crs) ==
  [tok |-> tok, cfgs |-> cfgs, crs |-> crs, calls |-> <<>>, nCR |-> 0, cfgFrom |-> "none"]

-----------------------------------------------------------------------------
(* The ingress: server.Handler *)

ServerAllowedRepositories == <<"acme/.*">>
WorkerAllowedRepositories == <<"acme/svc">>
AllowOnlyPublicRepositories == FALSE

Repository(nodeID, fullName, name, ownerLogin, private) ==
  [NodeID |-> nodeID, FullName |-> fullName, Name |-> name, OwnerLogin |-> ownerLogin,
   Private |-> private]

\* the body of a webhook delivery: json is false for a body that is no JSON object,
\* typed is false when a field of the event has the wrong JSON type
Body(json, typed, action, installationID, repository, number, state, checkRunPRs) ==
  [json |-> json, typed |-> typed, Action |-> action, InstallationID |-> installationID,
   Repository |-> repository, Number |-> number, State |-> state,
   CheckRunPRs |-> checkRunPRs]

Request(method, uri, event, readable, body) ==
  [method |-> method, uri |-> uri, event |-> event, readable |-> readable, body |-> body]

IsValid_NoOwner(req) ==
  /\ req.InstallationID # 0
  /\ req.Repository.NodeID # ""
  /\ req.Repository.FullName # ""
  /\ req.Repository.Name # ""

IsValid(req) ==
  /\ req.InstallationID # 0
  /\ req.Repository.NodeID # ""
  /\ req.Repository.FullName # ""
  /\ req.Repository.Name # ""
  /\ req.Repository.OwnerLogin # ""

unmarshalAndValidateRequest_NoAllowlist(body) ==
  IF ~body.json THEN 400 ELSE IF ~IsValid(body) THEN 200 ELSE 0

\* the status of the response, 0 when the request passes
unmarshalAndValidateRequest(body) ==
  IF ~body.json THEN 400
  ELSE IF ~IsValid(body) THEN 200
  ELSE IF AllowOnlyPublicRepositories /\ body.Repository.Private THEN 200
  ELSE IF ContainsOneOf(ServerAllowedRepositories, <<body.Repository.FullName>>) = "" THEN 200
  ELSE 0

\* common.QueuePushMessage, QueueStatusMessage (Number 0) and QueuePullRequestMessage
QueueMessageData(installationID, repository, number) ==
  [json |-> TRUE, InstallationID |-> installationID, Repository |-> repository,
   Number |-> number]

Response(q, status) == [q |-> q, status |-> status]

queuePullRequestMessage(q, body, number, t, fail) ==
  QueueMessage(q, RateLimitInterval, "pull_request",
               PullRequestFingerprint(body.InstallationID, body.Repository.NodeID, number),
               QueueMessageData(body.InstallationID, body.Repository, number), t, fail)

\* the orders in which range may walk the map of numbers (all orders of up to two keys)
MapOrders == {"ascending", "descending"}

\* the loop of handleCheckRun over the de-duplicated numbers, left at the first error
RECURSIVE QueueCheckRunPullRequests(_, _, _, _, _, _)
QueueCheckRunPullRequests(q, body, numbers, t, fail, order) ==
  IF numbers = {} THEN Response(q, 200)
  ELSE The({ The({ IF r.err THEN Response(r.q, 500)
                   ELSE QueueCheckRunPullRequests(r.q, body, numbers \ {number}, t, fail,
                                                  order)
                   : r \in { queuePullRequestMessage(q, body, number, t, fail) } })
             : number \in { IF order = "ascending"
                            THEN CHOOSE n \in numbers : \A o \in numbers : n <= o
                            ELSE CHOOSE n \in numbers : \A o \in numbers : n >= o } })

\* the number 0 is not left out
handleCheckRun_KeepsZero(q, body, t, fail, order) ==
  IF ~body.typed THEN Response(q, 400)
  ELSE IF body.Action # "completed" THEN Response(q, 200)
  ELSE QueueCheckRunPullRequests(
         q, body, { body.CheckRunPRs[k] : k \in 1..Len(body.CheckRunPRs) }, t, fail, order)

\* CheckRunPRs: check_run.pull_requests followed by check_run.check_suite.pull_requests
handleCheckRun(q, body, t, fail, order) ==
  IF ~body.typed THEN Response(q, 400)
  ELSE IF body.Action # "completed" THEN Response(q, 200)
  ELSE QueueCheckRunPullRequests(
         q, body, { body.CheckRunPRs[k] : k \in 1..Len(body.CheckRunPRs) } \ {0}, t, fail,
         order)

\* handlePullRequest and handlePullRequestReview differ in the actions they take up
PullRequestEvent(q, body, handleActions, t, fail) ==
  IF ~body.typed THEN Response(q, 400)
  ELSE IF body.Number = 0 THEN Response(q, 200)
  ELSE IF body.State = "" THEN Response(q, 200)
  ELSE IF body.State # "open" THEN Response(q, 200)
  ELSE IF body.Action \notin handleActions THEN Response(q, 200)
  ELSE IF AllowOnlyPublicRepositories /\ body.Repository.Private THEN Response(q, 200)
  ELSE IF ContainsOneOf(ServerAllowedRepositories, <<body.Repository.FullName>>) = ""
       THEN Response(q, 200)
  ELSE The({ Response(r.q, IF r.err THEN 500 ELSE 200)
             : r \in { queuePullRequestMessage(q, body, body.Number, t, fail) } })

handlePullRequest_AnyAction(q, body, t, fail) ==
  PullRequestEvent(q, body, {"created", "opened", "labeled", "reopened", "synchronize",
                             "edited", "unlabeled", "closed"}, t, fail)

handlePullRequest(q, body, t, fail) ==
  PullRequestEvent(q, body, {"created", "opened", "labeled", "reopened", "synchronize",
                             "edited"}, t, fail)

handlePullRequestReview(q, body, t, fail) == PullRequestEvent(q, body, {"submitted"}, t, fail)

\* handlePush and handleStatus: kind is "push" or "status"
handlePush(q, kind, baseRequest, t, fail) ==
  The({ Response(r.q, IF r.err THEN 500 ELSE 200)
        : r \in { QueueMessage(q, RateLimitInterval, kind,
                               PushFingerprint(kind, baseRequest.InstallationID,
                                               baseRequest.Repository.NodeID),
                               QueueMessageData(baseRequest.InstallationID,
                                                baseRequest.Repository, 0), t, fail) } })

ServeHTTP(q, r, t, fail, order) ==
  IF r.uri \notin {"/", ""} THEN Response(q, 404)
  ELSE IF r.method # "POST" THEN Response(q, 307)
  ELSE IF ~r.readable THEN Response(q, 400)
  ELSE IF unmarshalAndValidateRequest(r.body) # 0
       THEN Response(q, unmarshalAndValidateRequest(r.body))
  ELSE CASE r.event = "check_run" -> handleCheckRun(q, r.body, t, fail, order)
         [] r.event = "pull_request" -> handlePullRequest(q, r.body, t, fail)
         [] r.event = "pull_request_review" -> handlePullRequestReview(q, r.body, t, fail)
         [] r.event = "push" -> handlePush(q, "push", r.body, t, fail)
         [] r.event = "status" -> handlePush(q, "status", r.body, t, fail)
         [] OTHER -> Response(q, 200)

-----------------------------------------------------------------------------
(* The worker: handleMessage and the push handler *)

\* result of a handler together with the queue it published to
QueueResult(r, q) == [c |-> r.c, q |-> q, err |-> r.err, delay |-> r.delay, path |-> r.path]

\* the failing step of the QueueMessage calls of a run
QueueFailure(e) ==
  IF e.fail \cap {"kvget", "publish", "kvput"} = {} THEN "none"
  ELSE CHOOSE f \in e.fail \cap {"kvget", "publish", "kvput"} : TRUE

\* the name in e.fail of the step f of the k-th QueueMessage call of a run alone
ChildStep(f, k) == f \o "@" \o ToString(k)

\* the failing step of the k-th QueueMessage call of a run
QueueFailureAt(e, k) ==
  IF \E f \in {"kvget", "publish", "kvput"} : ChildStep(f, k) \in e.fail
  THEN CHOOSE f \in {"kvget", "publish", "kvput"} : ChildStep(f, k) \in e.fail
  ELSE QueueFailure(e)

\* the loop over the pull requests in pushWorker.runLogic and workOnAllPullRequests: it
\* goes on after a failed QueueMessage; k is the position of Head(pullRequests) in the
\* list GitHub answered; errors are the positions appended to the multierror
RECURSIVE QueuePullRequests(_, _, _, _, _, _)
QueuePullRequests(q, msg, pullRequests, t, e, k) ==
  IF pullRequests = <<>> THEN [q |-> q, err |-> FALSE, errors |-> <<>>]
  ELSE The({ The({ [ q |-> rest.q, err |-> r.err \/ rest.err,
                     errors |-> (IF r.err THEN <<k>> ELSE <<>>) \o rest.errors ]
                   : rest \in { QueuePullRequests(r.q, msg, Tail(pullRequests), t, e, k + 1) } })
             : r \in { QueueMessage(q, RateLimitInterval, "pull_request",
                                    PullRequestFingerprint(msg.InstallationID,
                                                           msg.Repository.NodeID,
                                                           Head(pullRequests)),
                                    QueueMessageData(msg.InstallationID, msg.Repository,
                                                     Head(pullRequests)), t,
                                    QueueFailureAt(e, k)) } })

\* github.GetPullRequestsThatAreOpenAndHaveOneOfTheseLabels: the search with its labels
SearchCall(c, e, token, labels) ==
  [c EXCEPT !.calls = Append(@, [op |-> "GetPullRequests", title |-> "",
                                 exp |-> token.ExpiresAt,
                                 ok |-> "GetPullRequests" \notin e.fail,
                                 labels |-> labels])]

\* the result of a run that got to the search: errors are the multierror's entries
FanOutResult(c, q, err, path, errors) ==
  [c |-> c, q |-> q, err |-> err, delay |-> 0, path |-> path, errors |-> errors]

\* the loop's result is returned as nil
QueueAllPullRequests_DropsErrors(c, q, e, token, cfg, msg, pullRequests, t) ==
  The({ IF "GetPullRequests" \in e.fail
        THEN FanOutResult(c2, q, "error", "list error", <<>>)
        ELSE IF pullRequests = <<>>
             THEN FanOutResult(c2, q, "nil", "no pull requests", <<>>)
        ELSE The({ FanOutResult(c2, r.q, "nil", "queued", <<>>)
                   : r \in { QueuePullRequests(q, msg, pullRequests, t, e, 1) } })
        : c2 \in { SearchCall(c, e, token, cfg.Update.Labels \o cfg.Merge.Labels) } })

\* the search and the loop, common to pushWorker.runLogic and workOnAllPullRequests
QueueAllPullRequests(c, q, e, token, cfg, msg, pullRequests, t) ==
  The({ IF "GetPullRequests" \in e.fail
        THEN FanOutResult(c2, q, "error", "list error", <<>>)
        ELSE IF pullRequests = <<>>
             THEN FanOutResult(c2, q, "nil", "no pull requests", <<>>)
        ELSE The({ FanOutResult(c2, r.q, IF r.err THEN "error" ELSE "nil",
                                IF r.err THEN "queue error" ELSE "queued", r.errors)
                   : r \in { QueuePullRequests(q, msg, pullRequests, t, e, 1) } })
        : c2 \in { SearchCall(c, e, token, cfg.Update.Labels \o cfg.Merge.Labels) } })

\* pushWorker.runLogic from the config on
pushWithConfig(g, q, e, token, msg, pullRequests, t) ==
  IF g.err THEN QueueResult(RunResult(g.c, "error", 0, "config error"), q)
  ELSE IF g.nil THEN QueueResult(RunResult(g.c, "nil", 0, "no config"), q)
  ELSE IF Len(g.cfg.Update.Labels) = 0
       THEN QueueResult(RunResult(g.c, "nil", 0, "update disabled"), q)
  ELSE QueueAllPullRequests(g.c, q, e, token, g.cfg, msg, pullRequests, t)

\* pushWorker.runLogic; pullRequests is what GitHub lists in this run
pushRunLogic(c, q, e, sha, msg, pullRequests, t) ==
  The({ IF a.err THEN QueueResult(RunResult(a.c, "error", 0, "token error"), q)
        ELSE The({ IF "GetLatestBaseCommitSha" \in e.fail
                   THEN QueueResult(RunResult(c1, "error", 0, "sha error"), q)
                   ELSE IF sha = 0 THEN QueueResult(RunResult(c1, "nil", 0, "no sha"), q)
                   ELSE The({ pushWithConfig(g, q, e, a.token, msg, pullRequests, t)
                              : g \in { getConfig(c1, e, a.token, sha, t) } })
                   : c1 \in { RemoteCall(a.c, e, "GetLatestBaseCommitSha", a.token, "") } })
        : a \in { getAccessToken(c, e, t) } })

workOnAllPullRequests(c, q, e, sess, msg, pullRequests, t) ==
  QueueAllPullRequests(c, q, e, sess.AccessToken, sess.Config, msg, pullRequests, t)

\* statusWorker.runLogic
statusRunLogic(c, q, e, sha, msg, pullRequests, t) ==
  The({ IF s.err THEN QueueResult(RunResult(s.c, "error", 0, "session error"), q)
        ELSE IF s.nil THEN QueueResult(RunResult(s.c, "nil", 0, "no session"), q)
        ELSE workOnAllPullRequests(s.c, q, e, s.sess, msg, pullRequests, t)
        : s \in { getSession(c, e, sha, t) } })

\* what handleMessage did: the acknowledgement, the handler's result (err "" when no
\* handler was invoked) and the return statement taken
Handled(c, q, ack, err, path) == [c |-> c, q |-> q, ack |-> ack, err |-> err, path |-> path]

\* the filters are not applied
handleMessageOf_NoFilter(worker, c, q, m, e, sha, details, pullRequests, t) ==
  The({ IF d.op = "Nak" THEN Handled(c, q, d, "", "bad header")
        ELSE IF d.op # "none" THEN Handled(c, q, d, "", "not before")
        ELSE IF ~m.Data.json
             THEN Handled(c, q, AckOp("NakWithDelay", RetryWait), "", "decode error")
        ELSE The({ Handled(r.c, r.q, AckForResult(r.err, r.delay), r.err, r.path)
                   : r \in { IF m.kind = "push"
                             THEN pushRunLogic(c, q, e, sha, m.Data, pullRequests, t)
                             ELSE QueueResult(pullRequestRunLogic(c, e, sha, details, t),
                                              q) } })
        : d \in { DelayMessageIfNeeded(m, t) } })

\* handleMessage of a worker with the settings worker.AllowOnlyPublicRepositories and
\* worker.AllowedRepositories
handleMessageOf(worker, c, q, m, e, sha, details, pullRequests, t) ==
  The({ IF d.op = "Nak" THEN Handled(c, q, d, "", "bad header")
        ELSE IF d.op # "none" THEN Handled(c, q, d, "", "not before")
        ELSE IF ~m.Data.json
             THEN Handled(c, q, AckOp("NakWithDelay", RetryWait), "", "decode error")
        ELSE IF worker.AllowOnlyPublicRepositories /\ m.Data.Repository.Private
             THEN Handled(c, q, AckOp("Ack", 0), "", "private")
        ELSE IF ContainsOneOf(worker.AllowedRepositories, <<m.Data.Repository.FullName>>) = ""
             THEN Handled(c, q, AckOp("Ack", 0), "", "not allowed")
        ELSE The({ Handled(r.c, r.q, AckForResult(r.err, r.delay), r.err, r.path)
                   : r \in { IF m.kind = "push"
                             THEN pushRunLogic(c, q, e, sha, m.Data, pullRequests, t)
                             ELSE QueueResult(pullRequestRunLogic(c, e, sha, details, t),
                                              q) } })
        : d \in { DelayMessageIfNeeded(m, t) } })

\* the worker of the deployment
handleMessage(c, q, m, e, sha, details, pullRequests, t) ==
  handleMessageOf([ AllowOnlyPublicRepositories |-> AllowOnlyPublicRepositories,
                    AllowedRepositories |-> WorkerAllowedRepositories ],
                  c, q, m, e, sha, details, pullRequests, t)

-----------------------------------------------------------------------------
(* Observations of the most recent step *)

NoRequest ==
  Request("", "", "", FALSE,
          Body(FALSE, FALSE, "", 0, Repository("", "", "", "", FALSE), 0, "", <<>>))

Observation(op, at, idx, path, err, ack, calls, details, status, pubs, kvOps, req) ==
  [ op |-> op, at |-> at, idx |-> idx, path |-> path, err |-> err, ack |-> ack,
    calls |-> calls, details |-> details, status |-> status, pubs |-> pubs,
    kvOps |-> kvOps, req |-> req ]

NoObservation ==
  Observation("init", 0, 0, "", "nil", NoAck, <<>>, NoDetails, 0, 0, 0, NoRequest)

NotObtained == [sha |-> 0, at |-> NoTime, from |-> "none"]

\* the history of the config after a run at time t that got its config from cfgFrom
ObtainedAfter(cfgFrom, sha, t) ==
  IF cfgFrom = "none" \/ obtained.sha = sha THEN obtained
  ELSE [sha |-> sha, at |-> t, from |-> cfgFrom]

\* the details the run got to see
FetchedDetails(calls, details) ==
  IF \E k \in 1..Len(calls) : calls[k].op = "GetPullRequestDetails" /\ calls[k].ok
  THEN details ELSE NoDetails

\* the session config the reconciler works with at sha (the parsed file or the default)
ConfigAt(sha) ==
  IF PolicyFileAt(sha).status = 404 THEN defaultConfig
  ELSE parseConfig(PolicyFileAt(sha).file).cfg

Called(op) == \E k \in 1..Len(last.calls) : last.calls[k].op = op
Succeeded(op) == \E k \in 1..Len(last.calls) : last.calls[k].op = op /\ last.calls[k].ok
WroteCheckRun(title) ==
  \E k \in 1..Len(last.calls) :
     last.calls[k].op \in {"CreateCheckRun", "UpdateCheckRun"} /\ last.calls[k].title = title

-----------------------------------------------------------------------------
(* Specification of the pull-request reconciler alone: one delivery after the other of
   a pull_request work item of one repository, GitHub answering anything *)

InitPR ==
  /\ now = FromUnix(2)
  /\ rateLimitKV = <<>>
  /\ dupWindow = <<>>
  /\ msgs = <<>>
  /\ closed = FALSE
  /\ accessTokensKV = <<>>
  /\ configsKV = <<>>
  /\ checkRunsKV = {}
  /\ baseSha \in 1..Len(PolicyFiles)
  /\ obtained = NotObtained
  /\ merged = {}
  /\ callers = <<>>
  /\ last = NoObservation

RunPullRequestLogic(details, e) ==
  \E r \in { pullRequestRunLogic(Context(accessTokensKV, configsKV, checkRunsKV),
                                  e, baseSha, details, now) } :
     /\ accessTokensKV' = r.c.tok
     /\ configsKV' = r.c.cfgs
     /\ checkRunsKV' = r.c.crs
     /\ obtained' = ObtainedAfter(r.c.cfgFrom, baseSha, now)
     /\ last' = Observation("pull_request", now, 0, r.path, r.err,
                            AckForResult(r.err, r.delay), r.c.calls,
                            FetchedDetails(r.c.calls, details), 0, 0, 0, NoRequest)
     /\ UNCHANGED <<merged, callers, now, rateLimitKV, dupWindow, msgs, closed, baseSha>>

NextPR ==
  \E in \in ReconcilerInputs(now) : RunPullRequestLogic(in[1], in[2])

SpecPR == InitPR /\ [][NextPR]_vars

-----------------------------------------------------------------------------
(* Specification of the session caches over time: the reconciler runs again and again
   for one repository while the clock advances and the default branch moves *)

SessionEnvs ==
  { Env({f}, FALSE) : f \in { "GetAccessToken", "tokenKVPut", "GetLatestBaseCommitSha",
                              "configsKVGet", "GetConfig", "configsKVPut" } }
  \cup { NoFailure }

SessionDetails ==
  { Details("OPEN", <<"merge">>, 0, FALSE, "head1", OldCommit, ChecksGreen),
    Details("OPEN", <<"update-branch", "merge">>, 1, FALSE, "head1", OldCommit, ChecksGreen) }

InitSession ==
  /\ now = 0
  /\ rateLimitKV = <<>>
  /\ dupWindow = <<>>
  /\ msgs = <<>>
  /\ closed = FALSE
  /\ accessTokensKV = <<>>
  /\ configsKV = <<>>
  /\ checkRunsKV = {}
  /\ baseSha = 1
  /\ obtained = NotObtained
  /\ merged = {}
  /\ callers = <<>>
  /\ last = NoObservation

RunWithSession == \E details \in SessionDetails, e \in SessionEnvs : RunPullRequestLogic(details, e)

Tick ==
  /\ now < MaxTime
  /\ now' = now + 1
  /\ last' = Observation("tick", now + 1, 0, "", "", NoAck, <<>>, NoDetails, 0, 0, 0,
                         NoRequest)
  /\ UNCHANGED <<callers, rateLimitKV, dupWindow, msgs, closed, accessTokensKV, configsKV,
                 checkRunsKV, baseSha, obtained, merged>>

\* a commit lands on the default branch
BaseBranchMoves ==
  /\ baseSha < MaxSha
  /\ baseSha' = baseSha + 1
  /\ UNCHANGED <<callers, now, rateLimitKV, dupWindow, msgs, closed, accessTokensKV, configsKV,
                 checkRunsKV, obtained, merged, last>>

NextSession == RunWithSession \/ Tick \/ BaseBranchMoves

SpecSession == InitSession /\ [][NextSession]_vars

-----------------------------------------------------------------------------
(* Specification of the skip conditions alone: each condition of should_skip.go applied
   to a merge config and a snapshot, as the unit tests of the package do *)

\* MergeConfigV1 values as the tests build them (IgnoreConfig fields set directly)
SkipConfigs ==
  { [defaultConfig.Merge EXCEPT !.RequiredApprovals = n, !.RequireApprovalsFrom = from,
                                !.RequireLinearHistory = linear, !.IgnoreConfig = ic] :
      n \in {0, 1, 2},
      from \in { <<>>, <<"alice">>, <<"alice", "bob">>, <<"bob", "carol">> },
      linear \in BOOLEAN,
      ic \in { EmptyIgnore,
               [ IgnoreFromUsers |-> <<"dependabot">>, IgnoreWithTitles |-> <<"chore:.+">>,
                 ignoreWithLabels |-> <<"never-merge", "no-merge">> ],
               [ IgnoreFromUsers |-> <<"carol", "alice">>, IgnoreWithTitles |-> <<"wip", "">>,
                 ignoreWithLabels |-> <<"no-merge-.+">> ],
               [ IgnoreFromUsers |-> <<"carol">>, IgnoreWithTitles |-> <<"wip">>,
                 ignoreWithLabels |-> <<"never-merge">> ] } }

SkipDetails ==
  { [ Details("OPEN", who[2], a, FALSE, "head1", OldCommit, cs)
        EXCEPT !.ApprovedBy = by, !.Title = who[1], !.Author = who[3] ] :
      a \in {0, 1, 2}, cs \in {ChecksGreen, ChecksLintFailed},
      by \in { <<>>, <<"alice">>, <<"Alice", "carol">>, <<"bobby", "alice">>,
               <<"carol", "dave">> },
      who \in { <<"Fix bug", <<"merge">>, "alice">>,
                <<"chore: bump", <<"merge", "no-merge">>, "dependabot">>,
                <<"WIP", <<"NO-MERGE">>, "Dependabot">>,
                <<"chore:", <<"no-merge-until-now", "merge">>, "dependabot[bot]">>,
                <<"Fix bug", <<>>, "dave">> } }

InitSkip ==
  /\ now = 0
  /\ rateLimitKV = <<>>
  /\ dupWindow = <<>>
  /\ msgs = <<>>
  /\ closed = FALSE
  /\ accessTokensKV = <<>>
  /\ configsKV = <<>>
  /\ checkRunsKV = {}
  /\ baseSha = 1
  /\ obtained = NotObtained
  /\ merged = {}
  /\ callers = <<>>
  /\ last \in { [ op |-> "inputs", cfg |-> cfg, details |-> details, title |-> NoSkip,
                   label |-> NoSkip, author |-> NoSkip, history |-> NoSkip,
                   reviews |-> NoSkip, checks |-> NoSkip, merge |-> NoSkip,
                   update |-> NoSkip ] : cfg \in SkipConfigs, details \in SkipDetails }

\* a ConfigV1 whose merge part is cfg and whose update part has the same ignore lists
SkipConfigV1(cfg) ==
  [ Version |-> 1, Merge |-> cfg,
    Update |-> [Labels |-> <<"update-branch">>, IgnoreConfig |-> cfg.IgnoreConfig] ]

\* every condition is called with the cfg and details drawn, then shouldSkipMerge and
\* shouldSkipUpdate; last keeps each result
RunSkipConditions ==
  \E cfg \in {last.cfg}, details \in {last.details} :
     /\ last.op = "inputs"
     /\ last' = [ op |-> "should_skip", cfg |-> cfg, details |-> details,
                  title |-> shouldSkipBecauseOfTitle(cfg.IgnoreConfig, details),
                  label |-> shouldSkipBecauseOfLabel(cfg.IgnoreConfig, details),
                  author |-> shouldSkipBecauseOfAuthorName(cfg.IgnoreConfig, details),
                  history |-> shouldSkipBecauseOfHistory(cfg, details),
                  reviews |-> shouldSkipBecauseOfReviews(cfg, details),
                  checks |-> shouldSkipBecauseOfChecks(cfg, details, now),
                  merge |-> shouldSkipMerge(SkipConfigV1(cfg), details, now),
                  update |-> shouldSkipUpdate(SkipConfigV1(cfg), details) ]
     /\ UNCHANGED <<callers, now, rateLimitKV, dupWindow, msgs, closed, accessTokensKV, configsKV,
                    checkRunsKV, baseSha, obtained, merged>>

SpecSkip == InitSkip /\ [][RunSkipConditions]_vars

-----------------------------------------------------------------------------
(* Specification of the ingress alone: webhook deliveries of every kind while the
   clock advances *)

SvcRepo == Repository("R_svc", "acme/svc", "svc", "acme", FALSE)
OldRepo == Repository("R_old", "acme/old", "old", "acme", TRUE)
EvilRepo == Repository("R_evil", "evil/app", "app", "evil", FALSE)

Event(event, action, repository, number, state, checkRunPRs) ==
  Request("POST", "/", event, TRUE,
          Body(TRUE, TRUE, action, 7, repository, number, state, checkRunPRs))

PushOf(repository) == Event("push", "", repository, 0, "", <<>>)
LabeledOf(repository) == Event("pull_request", "labeled", repository, 1, "open", <<>>)

Requests ==
  { PushOf(r) : r \in {SvcRepo, EvilRepo} }
  \cup { LabeledOf(r) : r \in {SvcRepo, EvilRepo} }
  \cup { Event("status", "", r, 0, "", <<>>) : r \in {SvcRepo, EvilRepo} }
  \cup { Event("check_run", "completed", r, 0, "", <<1, 1, 0>>) : r \in {SvcRepo, EvilRepo} }
  \cup { Event("check_run", "completed", SvcRepo, 0, "", prs) :
           prs \in { <<>>, <<0>>, <<2, 0, 1, 2>> } }
  \cup { Event("pull_request_review", "submitted", r, 1, "open", <<>>) :
           r \in {SvcRepo, EvilRepo} }
  \cup { Event("issues", "opened", r, 0, "", <<>>) : r \in {SvcRepo, EvilRepo} }
  \cup { [ e EXCEPT !.body.InstallationID = IF missing = "installation.id" THEN 0 ELSE @,
                    !.body.Repository.NodeID = IF missing = "node_id" THEN "" ELSE @,
                    !.body.Repository.FullName = IF missing = "full_name" THEN "" ELSE @,
                    !.body.Repository.Name = IF missing = "name" THEN "" ELSE @,
                    !.body.Repository.OwnerLogin = IF missing = "owner.login" THEN "" ELSE @ ] :
           e \in { PushOf(SvcRepo), LabeledOf(SvcRepo), Event("status", "", SvcRepo, 0, "", <<>>),
                   Event("check_run", "completed", SvcRepo, 0, "", <<1, 1, 0>>),
                   Event("pull_request_review", "submitted", SvcRepo, 1, "open", <<>>) },
           missing \in {"installation.id", "node_id", "full_name", "name", "owner.login"} }
  \cup { Event("pull_request", a, SvcRepo, 1, "open", <<>>) :
           a \in {"created", "opened", "reopened", "synchronize", "edited"} }
  \cup { Event("pull_request", "closed", SvcRepo, 1, "closed", <<>>),
         Event("pull_request", "edited", SvcRepo, 1, "closed", <<>>),
         Event("pull_request", "labeled", SvcRepo, 1, "", <<>>),
         Event("pull_request", "unlabeled", SvcRepo, 1, "open", <<>>),
         Event("pull_request", "opened", SvcRepo, 0, "open", <<>>),
         Event("check_run", "created", SvcRepo, 0, "", <<1>>),
         Request("GET", "/", "push", TRUE, PushOf(EvilRepo).body),
         Request("POST", "/hook", "push", TRUE, PushOf(EvilRepo).body),
         Request("POST", "/", "push", FALSE, PushOf(SvcRepo).body),
         Request("POST", "/", "push", TRUE,
                 Body(FALSE, FALSE, "", 0, Repository("", "", "", "", FALSE), 0, "", <<>>)),
         Request("POST", "/", "push", TRUE, Body(TRUE, TRUE, "", 0, EvilRepo, 0, "", <<>>)),
         Request("POST", "/", "pull_request", TRUE,
                 Body(TRUE, FALSE, "labeled", 7, SvcRepo, 0, "", <<>>)) }

QueueFailures == {"none", "kvget", "publish", "kvput"}

InitIngress ==
  /\ now = 0
  /\ rateLimitKV = <<>>
  /\ dupWindow = <<>>
  /\ msgs = <<>>
  /\ closed = FALSE
  /\ accessTokensKV = <<>>
  /\ configsKV = <<>>
  /\ checkRunsKV = {}
  /\ baseSha = 2
  /\ obtained = NotObtained
  /\ merged = {}
  /\ callers = <<>>
  /\ last = NoObservation

\* one webhook delivery served by ServeHTTP
Webhook(req, fail) ==
  /\ Len(msgs) < MaxMsgs
  /\ \E r \in { ServeHTTP(Queue(rateLimitKV, dupWindow, msgs), req, now, fail, order) :
                  order \in MapOrders } :
       /\ rateLimitKV' = r.q.kv
       /\ dupWindow' = r.q.dup
       /\ msgs' = r.q.msgs
       /\ last' = Observation("webhook", now, 0, req.event,
                              IF r.status = 500 THEN "error" ELSE "nil", NoAck, <<>>,
                              NoDetails, r.status, r.q.pubs, r.q.kvOps, req)
  /\ UNCHANGED <<callers, now, closed, accessTokensKV, configsKV, checkRunsKV, baseSha, obtained, merged>>

AnyWebhook == \E req \in Requests, fail \in QueueFailures : Webhook(req, fail)

NextIngress == AnyWebhook \/ Tick

SpecIngress == InitIngress /\ [][NextIngress]_vars

-----------------------------------------------------------------------------
(* Specification of concurrent ingress calls: MaxCallers webhook requests for one pull
   request are served at once, each running QueueMessage step by step (kv.Get,
   PublishMsgAsync, kv.Put) on the shared bucket and stream *)

\* md5 of the fingerprint of the pull request all callers enqueue
RaceMsgIDHash == Md5Hex(PullRequestFingerprint(1, SvcRepo.NodeID, 1))

InitRace ==
  /\ now = 0
  /\ rateLimitKV = <<>>
  /\ dupWindow = <<>>
  /\ msgs = <<>>
  /\ closed = FALSE
  /\ accessTokensKV = <<>>
  /\ configsKV = <<>>
  /\ checkRunsKV = {}
  /\ baseSha = 1
  /\ obtained = NotObtained
  /\ merged = {}
  /\ callers = [i \in 1..MaxCallers |->
                  [pc |-> "idle", header |-> [MsgId |-> <<>>, DelayUntil |-> NoHeader]]]
  /\ last = NoObservation

\* kv.Get and the header built from the entry
QueueMessageGet(i) ==
  /\ callers[i].pc = "idle"
  /\ Len(msgs) + Cardinality({ j \in 1..MaxCallers : callers[j].pc = "got" }) < MaxMsgs
  /\ callers' = [callers EXCEPT ![i] =
                   [ pc |-> "got",
                     header |-> QueueMessageHeader(KVGet(rateLimitKV, RaceMsgIDHash),
                                                   RateLimitInterval, RaceMsgIDHash, now) ]]
  /\ UNCHANGED <<now, rateLimitKV, dupWindow, msgs, closed, accessTokensKV, configsKV,
                 checkRunsKV, baseSha, obtained, merged, last>>

\* js.PublishMsgAsync with the header built before
QueueMessagePublish(i) ==
  /\ callers[i].pc = "got"
  /\ \E q \in { PublishMsgAsync(Queue(rateLimitKV, dupWindow, msgs), "pull_request",
                                  callers[i].header, QueueMessageData(1, SvcRepo, 1), now) } :
        /\ msgs' = q.msgs
        /\ dupWindow' = q.dup
  /\ callers' = [callers EXCEPT ![i].pc = "published"]
  /\ UNCHANGED <<now, rateLimitKV, closed, accessTokensKV, configsKV, checkRunsKV, baseSha,
                 obtained, merged, last>>

\* kv.Put of the current time; the call returns
QueueMessagePut(i) ==
  /\ callers[i].pc = "published"
  /\ rateLimitKV' = KVPut(rateLimitKV, RaceMsgIDHash, Unix(now))
  /\ callers' = [callers EXCEPT ![i].pc = "idle"]
  /\ UNCHANGED <<now, dupWindow, msgs, closed, accessTokensKV, configsKV, checkRunsKV,
                 baseSha, obtained, merged, last>>

NextRace ==
  \/ \E i \in 1..MaxCallers : QueueMessageGet(i)
  \/ \E i \in 1..MaxCallers : QueueMessagePublish(i)
  \/ \E i \in 1..MaxCallers : QueueMessagePut(i)
  \/ Tick

SpecRace == InitRace /\ [][NextRace]_vars

-----------------------------------------------------------------------------
(* Specification of the pipeline: ingress, stream and worker *)

PipelineRequests == { PushOf(SvcRepo), LabeledOf(SvcRepo), LabeledOf(OldRepo) }

UpdatablePR ==
  Details("OPEN", <<"update-branch", "merge">>, 1, FALSE, "head1", OldCommit, ChecksGreen)
MergeablePR == Details("OPEN", <<"merge">>, 0, FALSE, "head1", OldCommit, ChecksGreen)
ClosedPR == Details("CLOSED", <<"merge">>, 0, FALSE, "head1", OldCommit, ChecksGreen)

HandlerInput(details, e, pullRequests) ==
  [details |-> details, e |-> e, pullRequests |-> pullRequests]

\* what GitHub and NATS answer during the handling of a message of the kind
HandlerInputs(kind) ==
  IF kind = "push"
  THEN { HandlerInput(NoDetails, NoFailure, <<>>), HandlerInput(NoDetails, NoFailure, <<1>>),
         HandlerInput(NoDetails, Env({"kvput"}, FALSE), <<1>>),
         HandlerInput(NoDetails, Env({"GetPullRequests"}, FALSE), <<>>) }
  ELSE { HandlerInput(d, NoFailure, <<>>) : d \in {UpdatablePR, MergeablePR, ClosedPR} }
       \cup { HandlerInput(NoDetails, Env({"GetPullRequestDetails"}, FALSE), <<>>) }

\* messages on the stream that no ingress wrote: a body that does not decode, a
\* not-before header that does not parse
ForeignMessages ==
  { [ kind |-> "pull_request", Header |-> [MsgId |-> <<>>, DelayUntil |-> NoHeader],
      Data |-> [json |-> FALSE, InstallationID |-> 0,
                Repository |-> Repository("", "", "", "", FALSE), Number |-> 0] ],
    [ kind |-> "pull_request",
      Header |-> [MsgId |-> <<>>, DelayUntil |-> [layout |-> "garbage", sec |-> 0]],
      Data |-> QueueMessageData(7, SvcRepo, 2) ] }

Init ==
  /\ now = 0
  /\ rateLimitKV = <<>>
  /\ dupWindow = <<>>
  /\ msgs = <<>>
  /\ closed = FALSE
  /\ accessTokensKV = <<>>
  /\ configsKV = <<>>
  /\ checkRunsKV = {}
  /\ baseSha = 2
  /\ obtained = NotObtained
  /\ merged = {}
  /\ callers = <<>>
  /\ last = NoObservation

Ingress == \E req \in PipelineRequests, fail \in {"none", "kvput"} : Webhook(req, fail)

ForeignPublish ==
  \E m \in ForeignMessages :
     /\ Len(msgs) < MaxMsgs
     /\ msgs' = Append(msgs, StoredMsg(m.kind, m.Header, m.Data, now))
     /\ last' = Observation("foreign", now, Len(msgs) + 1, "", "", NoAck, <<>>, NoDetails,
                            0, 0, 0, NoRequest)
     /\ UNCHANGED <<callers, now, rateLimitKV, dupWindow, closed, accessTokensKV, configsKV,
                    checkRunsKV, baseSha, obtained, merged>>

\* a subscription goroutine of Consume takes the next message into its channel
Fetch ==
  \E i \in 1..Len(msgs) :
     /\ ~closed
     /\ Cardinality({ k \in 1..Len(msgs) : msgs[k].st = "chan" }) < MessageChannelSize
     /\ msgs[i].st = "pending"
     /\ msgs[i].availableAt <= now
     /\ msgs' = [msgs EXCEPT ![i].st = "chan", ![i].deliveries = @ + 1]
     /\ last' = Observation("fetch", now, i, "", "", NoAck, <<>>, NoDetails, 0, 0, 0,
                            NoRequest)
     /\ UNCHANGED <<callers, now, rateLimitKV, dupWindow, closed, accessTokensKV, configsKV,
                    checkRunsKV, baseSha, obtained, merged>>

\* the message has got past the not-before check
Seen(m, h) ==
  IF h.path \notin {"bad header", "not before"} THEN [m EXCEPT !.seen = TRUE] ELSE m

\* the select loop of Consume hands a message of a channel to handleMessage
Handle ==
  \E i \in 1..Len(msgs) :
     /\ ~closed
     /\ msgs[i].st = "chan"
     /\ \E in \in HandlerInputs(msgs[i].kind) :
          /\ Len(msgs) + Len(in.pullRequests) <= MaxMsgs
          /\ \E h \in { handleMessage(Context(accessTokensKV, configsKV, checkRunsKV),
                                      Queue(rateLimitKV, dupWindow, msgs), msgs[i], in.e,
                                      baseSha, in.details, in.pullRequests, now) } :
               /\ accessTokensKV' = h.c.tok
               /\ configsKV' = h.c.cfgs
               /\ checkRunsKV' = h.c.crs
               /\ rateLimitKV' = h.q.kv
               /\ dupWindow' = h.q.dup
               /\ msgs' = [h.q.msgs EXCEPT ![i] = Acknowledge(Seen(@, h), h.ack, now)]
               /\ last' = Observation(msgs[i].kind, now, i, h.path, h.err, h.ack, h.c.calls,
                                      FetchedDetails(h.c.calls, in.details), 0, h.q.pubs,
                                      h.q.kvOps, NoRequest)
     /\ UNCHANGED <<callers, now, closed, baseSha, obtained, merged>>

\* Consume returns (close signal or subscription error); the messages in its channels
\* stay unacknowledged
ConsumeReturns ==
  /\ ~closed
  /\ closed' = TRUE
  /\ msgs' = [k \in 1..Len(msgs) |->
                IF msgs[k].st = "chan" THEN [msgs[k] EXCEPT !.st = "unacked"] ELSE msgs[k]]
  /\ last' = Observation("return", now, 0, "", "", NoAck, <<>>, NoDetails, 0, 0, 0, NoRequest)
  /\ UNCHANGED <<callers, now, rateLimitKV, dupWindow, accessTokensKV, configsKV, checkRunsKV,
                 baseSha, obtained, merged>>

\* the ack wait of an unacknowledged delivery runs out: the stream offers the message again
AckWaitExpires ==
  \E i \in 1..Len(msgs) :
     /\ msgs[i].st = "unacked"
     /\ msgs' = [msgs EXCEPT ![i] = Acknowledge(@, AckOp("Nak", 0), now)]
     /\ last' = Observation("ack wait", now, i, "", "", NoAck, <<>>, NoDetails, 0, 0, 0,
                            NoRequest)
     /\ UNCHANGED <<callers, now, rateLimitKV, dupWindow, closed, accessTokensKV, configsKV,
                    checkRunsKV, baseSha, obtained, merged>>

Next ==
  \/ Ingress
  \/ ForeignPublish
  \/ Fetch
  \/ Handle
  \/ Tick
  \/ ConsumeReturns
  \/ AckWaitExpires

Spec == Init /\ [][Next]_vars

-----------------------------------------------------------------------------
(* Specification of handleMessage alone: one delivery of a work item to a worker, for
   every setting of its filters *)

PrivateSvcRepo == Repository("R_svc", "acme/svc", "svc", "acme", TRUE)

WorkerSettings ==
  { [AllowOnlyPublicRepositories |-> b, AllowedRepositories |-> allowed] :
      b \in BOOLEAN, allowed \in { <<"acme/svc">>, <<"acme/.*">>, <<>> } }

\* the message in the channel: its deliveries counts this one
DeliveredMessages ==
  { [ StoredMsg(kind, [MsgId |-> <<>>, DelayUntil |-> NoHeader],
                [QueueMessageData(1, repo, 1) EXCEPT !.json = json], 0)
        EXCEPT !.st = "chan", !.deliveries = n ] :
      kind \in {"push", "pull_request"},
      repo \in {SvcRepo, PrivateSvcRepo, OldRepo, EvilRepo},
      json \in BOOLEAN, n \in 1..MaxDeliver }

NotHandled == Handled(Context(<<>>, <<>>, {}), Queue(<<>>, <<>>, <<>>), NoAck, "", "")

\* the head of the default branch: a version 1 policy file, a version 2 policy file
DeliveryShas == {2, 4}

\* the configs bucket before the delivery: empty, or with the policy file of sha 2 as
\* getLatestConfig stored it
DeliveryConfigs ==
  { <<>>,
    << [SHA |-> 2, cfg |-> JsonRoundTrip(parseConfig(PolicyFileAt(2).file).cfg), putAt |-> 0] >> }

InitDelivery ==
  /\ now = 0
  /\ rateLimitKV = <<>>
  /\ dupWindow = <<>>
  /\ msgs = <<>>
  /\ closed = FALSE
  /\ accessTokensKV = <<>>
  /\ configsKV \in DeliveryConfigs
  /\ checkRunsKV = {}
  /\ baseSha \in DeliveryShas
  /\ obtained = NotObtained
  /\ merged = {}
  /\ callers = <<>>
  /\ last \in { [ op |-> "delivery", worker |-> w, m |-> m, h |-> NotHandled, after |-> m ] :
                   w \in WorkerSettings, m \in DeliveredMessages }

\* handleMessage runs for the message; GitHub and NATS answer every call with success
HandleDelivery ==
  \E h \in { handleMessageOf(last.worker, Context(accessTokensKV, configsKV, checkRunsKV),
                             Queue(rateLimitKV, dupWindow, msgs),
                             last.m, NoFailure, baseSha, MergeablePR, <<1>>, now) } :
     /\ last.op = "delivery"
     /\ last' = [ op |-> "handled", worker |-> last.worker, m |-> last.m, h |-> h,
                  after |-> Acknowledge(last.m, h.ack, now) ]
     /\ UNCHANGED <<callers, now, rateLimitKV, dupWindow, msgs, closed, accessTokensKV,
                    configsKV, checkRunsKV, baseSha, obtained, merged>>

SpecDelivery == InitDelivery /\ [][HandleDelivery]_vars

-----------------------------------------------------------------------------
(* Specification of the fan-out alone: one run of pushWorker.runLogic and one of
   statusWorker.runLogic for the same message, policy file, search answer, rate-limit
   bucket and failures *)

MaxPullRequests == 3

\* what the search answers: no number, one, two, MaxPullRequests not in order
SearchAnswers ==
  { <<>>, <<1>>, <<1, 2>>,
    [k \in 1..MaxPullRequests |-> IF k = 1 THEN MaxPullRequests ELSE k - 1] }

\* what fails in the run: a call to GitHub, a step of every QueueMessage call, a step of
\* the k-th QueueMessage call
FanOutEnvs ==
  { NoFailure, Env({"GetPullRequests"}, FALSE), Env({"GetConfig"}, FALSE),
    Env({"publish"}, FALSE), Env({ChildStep("publish", 1)}, FALSE),
    Env({ChildStep("kvput", 2)}, FALSE),
    Env({ChildStep("kvget", 1), ChildStep("publish", MaxPullRequests)}, FALSE) }

\* the rate-limit bucket and the duplicate window before the run: empty, or with pull
\* request 1 enqueued in this second
FanOutQueues ==
  { Queue(<<>>, <<>>, <<>>),
    Queue(KVPut(<<>>, Md5Hex(PullRequestFingerprint(1, SvcRepo.NodeID, 1)), Unix(FromUnix(1))),
          <<>>, <<>>),
    Queue(KVPut(<<>>, Md5Hex(PullRequestFingerprint(1, SvcRepo.NodeID, 1)), Unix(FromUnix(1))),
          KVPut(<<>>, Md5Hex(PullRequestFingerprint(1, SvcRepo.NodeID, 1)), FromUnix(1)),
          <<>>) }

NotRun == FanOutResult(Context(<<>>, <<>>, {}), Queue(<<>>, <<>>, <<>>), "", "", <<>>)

InitFanOut ==
  /\ now = FromUnix(1)
  /\ rateLimitKV = <<>>
  /\ dupWindow = <<>>
  /\ msgs = <<>>
  /\ closed = FALSE
  /\ accessTokensKV = <<>>
  /\ configsKV = <<>>
  /\ checkRunsKV = {}
  /\ baseSha \in 1..Len(PolicyFiles)
  /\ obtained = NotObtained
  /\ merged = {}
  /\ callers = <<>>
  /\ last \in { [ op |-> "inputs", q |-> q, e |-> e, pullRequests |-> prs,
                   push |-> NotRun, status |-> NotRun ] :
                   q \in FanOutQueues, e \in FanOutEnvs, prs \in SearchAnswers }

\* both reconcilers run for the message of the repository, each from the same caches,
\* bucket and stream
RunFanOut ==
  \E p \in { pushRunLogic(Context(<<>>, <<>>, {}), last.q, last.e, baseSha,
                          QueueMessageData(1, SvcRepo, 0), last.pullRequests, now) },
     s \in { statusRunLogic(Context(<<>>, <<>>, {}), last.q, last.e, baseSha,
                            QueueMessageData(1, SvcRepo, 0), last.pullRequests, now) } :
     /\ last.op = "inputs"
     /\ last' = [ op |-> "fan_out", q |-> last.q, e |-> last.e,
                  pullRequests |-> last.pullRequests, push |-> p, status |-> s ]
     /\ UNCHANGED <<callers, now, rateLimitKV, dupWindow, msgs, closed, accessTokensKV,
                    configsKV, checkRunsKV, baseSha, obtained, merged>>

SpecFanOut == InitFanOut /\ [][RunFanOut]_vars

-----------------------------------------------------------------------------
(* Specification of the deliveries of one pull_request work item of a pull request that
   is ready to merge: GitHub answers OPEN until a merge mutation succeeded and MERGED
   from then on *)

MergeEnvs ==
  { NoFailure, Env({"DeleteRef"}, FALSE), Env({"MergePullRequest"}, FALSE) }

\* the snapshot GitHub answers
SnapshotOf(pr) ==
  [pr EXCEPT !.State = IF pr.ID \in merged THEN "MERGED" ELSE "OPEN"]

\* the pull requests merged after the calls of a run
MergedAfter(calls, id) ==
  IF \E k \in 1..Len(calls) : calls[k].op = "MergePullRequest" /\ calls[k].ok
  THEN merged \cup {id} ELSE merged

InitMerge ==
  /\ now = 0
  /\ rateLimitKV = <<>>
  /\ dupWindow = <<>>
  /\ msgs = << StoredMsg("pull_request", [MsgId |-> <<>>, DelayUntil |-> NoHeader],
                         QueueMessageData(1, SvcRepo, 1), 0) >>
  /\ closed = FALSE
  /\ accessTokensKV = <<>>
  /\ configsKV = <<>>
  /\ checkRunsKV = {}
  /\ baseSha \in {2, 3}
  /\ obtained = NotObtained
  /\ merged = {}
  /\ callers = <<>>
  /\ last = NoObservation

\* handleMessage for the message in the channel
HandleMerge ==
  \E i \in 1..Len(msgs), e \in MergeEnvs :
     /\ msgs[i].st = "chan"
     /\ \E h \in { handleMessage(Context(accessTokensKV, configsKV, checkRunsKV),
                                 Queue(rateLimitKV, dupWindow, msgs), msgs[i], e, baseSha,
                                 SnapshotOf(MergeablePR), <<>>, now) } :
          /\ accessTokensKV' = h.c.tok
          /\ configsKV' = h.c.cfgs
          /\ checkRunsKV' = h.c.crs
          /\ rateLimitKV' = h.q.kv
          /\ dupWindow' = h.q.dup
          /\ msgs' = [h.q.msgs EXCEPT ![i] = Acknowledge(Seen(@, h), h.ack, now)]
          /\ merged' = MergedAfter(h.c.calls, MergeablePR.ID)
          /\ last' = Observation("pull_request", now, i, h.path, h.err, h.ack, h.c.calls,
                                 FetchedDetails(h.c.calls, SnapshotOf(MergeablePR)), 0,
                                 h.q.pubs, h.q.kvOps, NoRequest)
     /\ UNCHANGED <<callers, now, closed, baseSha, obtained>>

NextMerge == Fetch \/ HandleMerge \/ Tick

SpecMerge == InitMerge /\ [][NextMerge]_vars

-----------------------------------------------------------------------------
(* Specification of two runs of the reconciler for one config and one snapshot: the
   runs differ in their time and in the order in which the map of the check states is
   ranged over; every remote call succeeds and answers the same *)

RunTimes == { FromUnix(2), FromUnix(2) + 1, FromUnix(3) }

ChecksBothFailed == [n \in {"lint", "ci"} |-> "FAILURE"]

TwoRunsDetails ==
  OpenDetails(FromUnix(2)) \cup OtherDetails
  \cup { Details("OPEN", <<"merge">>, 0, FALSE, "head1", OldCommit, ChecksBothFailed) }

NoRun == RunResult(Context(<<>>, <<>>, {}), "", 0, "")
NoChecksResult == [result |-> NoSkip, lines |-> <<>>]

InitTwoRuns ==
  /\ now = FromUnix(2)
  /\ rateLimitKV = <<>>
  /\ dupWindow = <<>>
  /\ msgs = <<>>
  /\ closed = FALSE
  /\ accessTokensKV = <<>>
  /\ configsKV = <<>>
  /\ checkRunsKV = {}
  /\ baseSha \in 1..Len(PolicyFiles)
  /\ obtained = NotObtained
  /\ merged = {}
  /\ callers = <<>>
  /\ last \in { [ op |-> "inputs", details |-> d, t1 |-> t1, t2 |-> t2, order1 |-> o1,
                   order2 |-> o2, run1 |-> NoRun, run2 |-> NoRun,
                   checks1 |-> NoChecksResult, checks2 |-> NoChecksResult ] :
                   d \in TwoRunsDetails, t1 \in RunTimes, t2 \in RunTimes,
                   o1 \in UNION { RangeOrders(d2) : d2 \in TwoRunsDetails },
                   o2 \in UNION { RangeOrders(d2) : d2 \in TwoRunsDetails } }
  /\ last.t1 <= last.t2
  /\ last.order1 \in RangeOrders(last.details)
  /\ last.order2 \in RangeOrders(last.details)

\* both runs start from empty buckets
RunTwice ==
  \E r1 \in { pullRequestRunLogic(Context(<<>>, <<>>, {}), NoFailure, baseSha, last.details,
                                  last.t1) },
     r2 \in { pullRequestRunLogic(Context(<<>>, <<>>, {}), NoFailure, baseSha, last.details,
                                  last.t2) } :
     /\ last.op = "inputs"
     /\ last' = [ last EXCEPT
                    !.op = "two_runs", !.run1 = r1, !.run2 = r2,
                    !.checks1 = shouldSkipBecauseOfChecksIn(ConfigAt(baseSha).Merge,
                                                            last.details, last.t1, last.order1),
                    !.checks2 = shouldSkipBecauseOfChecksIn(ConfigAt(baseSha).Merge,
                                                            last.details, last.t2, last.order2) ]
     /\ UNCHANGED <<callers, now, rateLimitKV, dupWindow, msgs, closed, accessTokensKV,
                    configsKV, checkRunsKV, baseSha, obtained, merged>>

SpecTwoRuns == InitTwoRuns /\ [][RunTwice]_vars

-----------------------------------------------------------------------------
(* Specification of concurrent getAccessToken calls: MaxCallers workers (replicas of the
   worker process) handle a message of one repository each and run getAccessToken step by
   step (kv.Get, github.GetAccessToken, kv.Put) on the shared access-tokens bucket. A run
   ends within its deadline of one minute, far below the lifetime of a token: the clock
   does not advance while a call is under way *)

\* github.GetAccessToken answers every call with a token of its own
FreshToken(t, i) == [MintedToken(t) EXCEPT !.Token = (Unix(t) + 1) * (MaxCallers + 1) + i]

IdleWorker == [pc |-> "idle", token |-> NoToken, minted |-> FALSE]

InitMint ==
  /\ now = 0
  /\ rateLimitKV = <<>>
  /\ dupWindow = <<>>
  /\ msgs = <<>>
  /\ closed = FALSE
  /\ accessTokensKV \in { <<>>, <<MintedToken(0)>> }
  /\ configsKV = <<>>
  /\ checkRunsKV = {}
  /\ baseSha = 2
  /\ obtained = NotObtained
  /\ merged = {}
  /\ callers = [i \in 1..MaxCallers |-> IdleWorker]
  /\ last = NoObservation

TokenStep(op, i) ==
  Observation(op, now, i, "", "nil", NoAck, <<>>, NoDetails, 0, 0, 0, NoRequest)

\* kv.Get and the test of the entry: a usable entry is returned, otherwise a token is
\* to be created
AccessTokenGet(i) ==
  /\ callers[i].pc = "idle"
  /\ callers' = [callers EXCEPT ![i] =
                   IF accessTokensKV = <<>> \/ accessTokensKV[1].ExpiresAt < now
                   THEN [pc |-> "creating", token |-> NoToken, minted |-> FALSE]
                   ELSE [pc |-> "returned", token |-> accessTokensKV[1], minted |-> FALSE]]
  /\ last' = TokenStep("token_get", i)
  /\ UNCHANGED <<now, rateLimitKV, dupWindow, msgs, closed, accessTokensKV, configsKV,
                 checkRunsKV, baseSha, obtained, merged>>

\* github.GetAccessToken in createNewAccessToken
AccessTokenMint(i) ==
  /\ callers[i].pc = "creating"
  /\ callers' = [callers EXCEPT ![i] =
                   [pc |-> "minted", token |-> FreshToken(now, i), minted |-> TRUE]]
  /\ last' = TokenStep("token_mint", i)
  /\ UNCHANGED <<now, rateLimitKV, dupWindow, msgs, closed, accessTokensKV, configsKV,
                 checkRunsKV, baseSha, obtained, merged>>

\* the entry is written only when the bucket holds no usable one
AccessTokenPut_KeepsFirst(i) ==
  /\ callers[i].pc = "minted"
  /\ accessTokensKV' = IF accessTokensKV = <<>> \/ accessTokensKV[1].ExpiresAt < now
                       THEN <<callers[i].token>> ELSE accessTokensKV
  /\ callers' = [callers EXCEPT ![i].pc = "returned"]
  /\ last' = TokenStep("token_put", i)
  /\ UNCHANGED <<now, rateLimitKV, dupWindow, msgs, closed, configsKV, checkRunsKV, baseSha,
                 obtained, merged>>

\* AccessTokensKV.Put in createNewAccessToken; the call returns the token it created
AccessTokenPut(i) ==
  /\ callers[i].pc = "minted"
  /\ accessTokensKV' = <<callers[i].token>>
  /\ callers' = [callers EXCEPT ![i].pc = "returned"]
  /\ last' = TokenStep("token_put", i)
  /\ UNCHANGED <<now, rateLimitKV, dupWindow, msgs, closed, configsKV, checkRunsKV, baseSha,
                 obtained, merged>>

\* the clock advances between the runs
TickBetweenRuns ==
  /\ \A i \in 1..MaxCallers : callers[i].pc \in {"idle", "returned"}
  /\ Tick

NextMint ==
  \/ \E i \in 1..MaxCallers : AccessTokenGet(i)
  \/ \E i \in 1..MaxCallers : AccessTokenMint(i)
  \/ \E i \in 1..MaxCallers : AccessTokenPut(i)
  \/ TickBetweenRuns

SpecMint == InitMint /\ [][NextMint]_vars

-----------------------------------------------------------------------------
(* Specification of Consume step by step: for each subject a goroutine takes the next
   message of the subscription (NextMsgWithContext) and sends it to the channel of the
   subject, and the select loop receives from the channels and runs handleMessage.
   callers holds the channel of each subject: the positions in msgs of its messages, the
   oldest first; the message a goroutine has taken and not yet sent has st "taken" *)

PumpSubjects == {"push", "pull_request"}

\* the work items in the stream when the worker starts
PumpMessages ==
  << StoredMsg("pull_request", [MsgId |-> <<>>, DelayUntil |-> NoHeader],
               QueueMessageData(1, SvcRepo, 1), 0),
     StoredMsg("push", [MsgId |-> <<>>, DelayUntil |-> NoHeader],
               QueueMessageData(1, SvcRepo, 0), 0),
     StoredMsg("pull_request", [MsgId |-> <<>>, DelayUntil |-> NoHeader],
               QueueMessageData(1, SvcRepo, 2), 0),
     StoredMsg("pull_request", [MsgId |-> <<>>, DelayUntil |-> NoHeader],
               QueueMessageData(1, SvcRepo, 3), 0) >>

\* what GitHub answers during the handling of a message: success, or an error
PumpInputs ==
  { HandlerInput(MergeablePR, NoFailure, <<>>) }

InitPump ==
  /\ now = 0
  /\ rateLimitKV = <<>>
  /\ dupWindow = <<>>
  /\ msgs = PumpMessages
  /\ closed = FALSE
  /\ accessTokensKV = <<>>
  /\ configsKV = <<>>
  /\ checkRunsKV = {}
  /\ baseSha = 2
  /\ obtained = NotObtained
  /\ merged = {}
  /\ callers = [subject \in PumpSubjects |-> <<>>]
  /\ last = NoObservation

\* the goroutine of the subject holds no message
PumpIdle(subject) ==
  \A k \in 1..Len(msgs) : ~(msgs[k].kind = subject /\ msgs[k].st = "taken")

\* every message is taken at once, whether the last one was sent or not
NextMsgWithContext_NoWait(subject) ==
  \E i \in 1..Len(msgs) :
     /\ msgs[i].kind = subject
     /\ msgs[i].st = "pending"
     /\ msgs[i].availableAt <= now
     /\ msgs' = [msgs EXCEPT ![i].st = "taken", ![i].deliveries = @ + 1]
     /\ last' = Observation("next_msg", now, i, "", "", NoAck, <<>>, NoDetails, 0, 0, 0,
                            NoRequest)
     /\ UNCHANGED <<callers, now, rateLimitKV, dupWindow, closed, accessTokensKV, configsKV,
                    checkRunsKV, baseSha, obtained, merged>>

\* NextMsgWithContext returns the next message of the subscription to the goroutine
NextMsgWithContext(subject) ==
  \E i \in 1..Len(msgs) :
     /\ PumpIdle(subject)
     /\ msgs[i].kind = subject
     /\ msgs[i].st = "pending"
     /\ msgs[i].availableAt <= now
     /\ msgs' = [msgs EXCEPT ![i].st = "taken", ![i].deliveries = @ + 1]
     /\ last' = Observation("next_msg", now, i, "", "", NoAck, <<>>, NoDetails, 0, 0, 0,
                            NoRequest)
     /\ UNCHANGED <<callers, now, rateLimitKV, dupWindow, closed, accessTokensKV, configsKV,
                    checkRunsKV, baseSha, obtained, merged>>

\* the send to the channel of the subject: it blocks while the channel is full
ChannelSend(subject) ==
  \E i \in 1..Len(msgs) :
     /\ msgs[i].kind = subject
     /\ msgs[i].st = "taken"
     /\ Len(callers[subject]) < MessageChannelSize
     /\ callers' = [callers EXCEPT ![subject] = Append(@, i)]
     /\ msgs' = [msgs EXCEPT ![i].st = "chan"]
     /\ last' = Observation("send", now, i, "", "", NoAck, <<>>, NoDetails, 0, 0, 0,
                            NoRequest)
     /\ UNCHANGED <<now, rateLimitKV, dupWindow, closed, accessTokensKV, configsKV,
                    checkRunsKV, baseSha, obtained, merged>>

\* the select loop receives the oldest message of a channel and runs handleMessage
Select(subject) ==
  \E in \in PumpInputs :
     /\ callers[subject] # <<>>
     /\ \E i \in {Head(callers[subject])} :
        \E h \in { handleMessage(Context(accessTokensKV, configsKV, checkRunsKV),
                                 Queue(rateLimitKV, dupWindow, msgs), msgs[i], in.e,
                                 baseSha, in.details, in.pullRequests, now) } :
          /\ accessTokensKV' = h.c.tok
          /\ configsKV' = h.c.cfgs
          /\ checkRunsKV' = h.c.crs
          /\ rateLimitKV' = h.q.kv
          /\ dupWindow' = h.q.dup
          /\ msgs' = [h.q.msgs EXCEPT ![i] = Acknowledge(Seen(@, h), h.ack, now)]
          /\ callers' = [callers EXCEPT ![subject] = Tail(@)]
          /\ last' = Observation(msgs[i].kind, now, i, h.path, h.err, h.ack, h.c.calls,
                                 FetchedDetails(h.c.calls, in.details), 0, h.q.pubs,
                                 h.q.kvOps, NoRequest)
     /\ UNCHANGED <<now, closed, baseSha, obtained, merged>>

NextPump ==
  \/ \E subject \in PumpSubjects : NextMsgWithContext(subject)
  \/ \E subject \in PumpSubjects : ChannelSend(subject)
  \/ \E subject \in PumpSubjects : Select(subject)
  \/ Tick

SpecPump == InitPump /\ [][NextPump]_vars

-----------------------------------------------------------------------------
(* Specification of the worker process: main starts Consume in a goroutine and waits for
   the signal (then it calls Shutdown) or for the result of Consume. callers holds the
   position of main (main), the channel Shutdown sends on (ch), the position of Consume
   (consume), the field worker.closeCh (closeCh) and the message in handleMessage (msg) *)

ShutdownMessages ==
  << StoredMsg("pull_request", [MsgId |-> <<>>, DelayUntil |-> NoHeader],
               QueueMessageData(1, SvcRepo, 1), 0),
     StoredMsg("pull_request", [MsgId |-> <<>>, DelayUntil |-> NoHeader],
               QueueMessageData(1, SvcRepo, 2), 0) >>

InitShutdown ==
  /\ now = 0
  /\ rateLimitKV = <<>>
  /\ dupWindow = <<>>
  /\ msgs = ShutdownMessages
  /\ closed = FALSE
  /\ accessTokensKV = <<>>
  /\ configsKV = <<>>
  /\ checkRunsKV = {}
  /\ baseSha = 2
  /\ obtained = NotObtained
  /\ merged = {}
  /\ callers = [main |-> "select", ch |-> "none", consume |-> "start", closeCh |-> "nil",
                msg |-> 0]
  /\ last = NoObservation

ProcessStep(op) ==
  last' = Observation(op, now, 0, "", "", NoAck, <<>>, NoDetails, 0, 0, 0, NoRequest)

\* Consume makes the channel closeCh and starts its goroutines and its select loop
ConsumeEnters ==
  /\ callers.consume = "start"
  /\ callers' = [callers EXCEPT !.consume = "idle", !.closeCh = "made"]
  /\ ProcessStep("consume")
  /\ UNCHANGED <<now, rateLimitKV, dupWindow, msgs, closed, accessTokensKV, configsKV,
                 checkRunsKV, baseSha, obtained, merged>>

\* a goroutine of Consume puts the next message of its subscription into its channel;
\* the goroutines outlive the select loop
Pump ==
  \E i \in 1..Len(msgs) :
     /\ callers.consume # "start"
     /\ Cardinality({ k \in 1..Len(msgs) : msgs[k].st = "chan" }) < MessageChannelSize
     /\ msgs[i].st = "pending"
     /\ msgs[i].availableAt <= now
     /\ msgs' = [msgs EXCEPT ![i].st = "chan", ![i].deliveries = @ + 1]
     /\ ProcessStep("fetch")
     /\ UNCHANGED <<callers, now, rateLimitKV, dupWindow, closed, accessTokensKV, configsKV,
                    checkRunsKV, baseSha, obtained, merged>>

\* the select loop receives a message and calls handleMessage
HandlerStarts ==
  \E i \in 1..Len(msgs) :
     /\ callers.consume = "idle"
     /\ msgs[i].st = "chan"
     /\ callers' = [callers EXCEPT !.consume = "handling", !.msg = i]
     /\ msgs' = [msgs EXCEPT ![i].st = "handler"]
     /\ ProcessStep("receive")
     /\ UNCHANGED <<now, rateLimitKV, dupWindow, closed, accessTokensKV, configsKV,
                    checkRunsKV, baseSha, obtained, merged>>

\* handleMessage returns to the select loop
HandlerReturns ==
  \E in \in PumpInputs :
     /\ callers.consume = "handling"
     /\ \E i \in {callers.msg} :
        \E h \in { handleMessage(Context(accessTokensKV, configsKV, checkRunsKV),
                                 Queue(rateLimitKV, dupWindow, msgs), msgs[i], in.e,
                                 baseSha, in.details, in.pullRequests, now) } :
          /\ accessTokensKV' = h.c.tok
          /\ configsKV' = h.c.cfgs
          /\ checkRunsKV' = h.c.crs
          /\ rateLimitKV' = h.q.kv
          /\ dupWindow' = h.q.dup
          /\ msgs' = [h.q.msgs EXCEPT ![i] = Acknowledge(Seen(@, h), h.ack, now)]
          /\ last' = Observation(msgs[i].kind, now, i, h.path, h.err, h.ack, h.c.calls,
                                 FetchedDetails(h.c.calls, in.details), 0, h.q.pubs,
                                 h.q.kvOps, NoRequest)
     /\ callers' = [callers EXCEPT !.consume = "idle", !.msg = 0]
     /\ UNCHANGED <<now, closed, baseSha, obtained, merged>>

\* a goroutine got an error from its subscription: the select loop takes it from errChan
\* and Consume returns the error
SubscriptionError ==
  /\ callers.consume = "idle"
  /\ callers' = [callers EXCEPT !.consume = "returned"]
  /\ closed' = TRUE
  /\ msgs' = [k \in 1..Len(msgs) |->
                IF msgs[k].st = "chan" THEN [msgs[k] EXCEPT !.st = "unacked"] ELSE msgs[k]]
  /\ ProcessStep("error received")
  /\ UNCHANGED <<now, rateLimitKV, dupWindow, accessTokensKV, configsKV, checkRunsKV,
                 baseSha, obtained, merged>>

\* the signal arrives: main calls Shutdown, which reads worker.closeCh and sends on it
Signal ==
  /\ callers.main = "select"
  /\ callers' = [callers EXCEPT !.main = "shutdown", !.ch = callers.closeCh]
  /\ ProcessStep("shutting down")
  /\ UNCHANGED <<now, rateLimitKV, dupWindow, msgs, closed, accessTokensKV, configsKV,
                 checkRunsKV, baseSha, obtained, merged>>

\* the select loop receives what Shutdown sends on closeCh: Consume returns nil and
\* Shutdown returns. A send on a nil channel never proceeds
CloseSignalReceived ==
  /\ callers.main = "shutdown"
  /\ callers.ch = "made"
  /\ callers.consume = "idle"
  /\ callers' = [callers EXCEPT !.main = "done", !.consume = "returned"]
  /\ closed' = TRUE
  /\ msgs' = [k \in 1..Len(msgs) |->
                IF msgs[k].st = "chan" THEN [msgs[k] EXCEPT !.st = "unacked"] ELSE msgs[k]]
  /\ ProcessStep("close signal received")
  /\ UNCHANGED <<now, rateLimitKV, dupWindow, accessTokensKV, configsKV, checkRunsKV,
                 baseSha, obtained, merged>>

\* main receives the result of Consume and returns
MainReceivesResult ==
  /\ callers.main = "select"
  /\ callers.consume = "returned"
  /\ callers' = [callers EXCEPT !.main = "done"]
  /\ ProcessStep("unable to consume")
  /\ UNCHANGED <<now, rateLimitKV, dupWindow, msgs, closed, accessTokensKV, configsKV,
                 checkRunsKV, baseSha, obtained, merged>>

NextShutdown ==
  \/ ConsumeEnters
  \/ Pump
  \/ HandlerStarts
  \/ HandlerReturns
  \/ SubscriptionError
  \/ Signal
  \/ CloseSignalReceived
  \/ MainReceivesResult
  \/ Tick

\* the goroutines are scheduled, a handler returns within its deadline, and a select
\* that is ready to receive from closeCh again and again does so in the end
SpecShutdown ==
  /\ InitShutdown
  /\ [][NextShutdown]_vars
  /\ WF_vars(ConsumeEnters)
  /\ WF_vars(HandlerReturns)
  /\ SF_vars(CloseSignalReceived)

-----------------------------------------------------------------------------
(* Specification of the check states: GitHub answers with the status contexts, check
   suites and check runs of the last commit, GetPullRequestDetails turns them into
   details.CheckStates, and the reconciler runs on the result *)

CheckRun(name, status, conclusion) ==
  [Name |-> name, Status |-> status, Conclusion |-> conclusion]

CheckSuite(app, conclusion, runs) ==
  [App |-> app, Conclusion |-> conclusion, CheckRuns |-> runs]

\* the check runs GitHub reports: completed ones, and ones that run or wait
CheckRunsReported ==
  { CheckRun("build", "COMPLETED", "SUCCESS"), CheckRun("build", "COMPLETED", "FAILURE"),
    CheckRun("build", "IN_PROGRESS", ""), CheckRun("build", "QUEUED", "") }

\* a suite has the conclusion of its runs once all of them are completed
CheckSuitesReported ==
  { CheckSuite("ci", "", <<>>) }
  \cup { CheckSuite("ci", run.Conclusion, <<run>>) : run \in CheckRunsReported }

\* the last commit as GitHub reports it: the status context lint and up to two check
\* suites of the app ci
CommitsReported ==
  { [Contexts |-> <<[Context |-> "lint", State |-> "SUCCESS"]>>, CheckSuites |-> suites] :
      suites \in { <<>> } \cup { <<a>> : a \in CheckSuitesReported }
                 \cup { <<a, b>> : a \in CheckSuitesReported, b \in CheckSuitesReported } }

\* the state a check run is recorded with
CheckRunState(run) == IF run.Status = "COMPLETED" THEN run.Conclusion ELSE "PENDING"

\* the assignments to details.CheckStates that a check suite makes, in their order
SuiteWrites(node) ==
  <<[name |-> node.App, state |-> node.Conclusion]>>
  \o [k \in 1..Len(node.CheckRuns) |->
        [name |-> node.App \o "/" \o node.CheckRuns[k].Name,
         state |-> CheckRunState(node.CheckRuns[k])]]

RECURSIVE SuitesWrites(_)
SuitesWrites(nodes) ==
  IF nodes = <<>> THEN <<>> ELSE SuiteWrites(Head(nodes)) \o SuitesWrites(Tail(nodes))

\* the assignments to details.CheckStates in their order: the status contexts, then the
\* check suites, each followed by its check runs
CheckStateWrites(commit) ==
  [k \in 1..Len(commit.Contexts) |->
     [name |-> commit.Contexts[k].Context, state |-> commit.Contexts[k].State]]
  \o SuitesWrites(commit.CheckSuites)

\* details.CheckStates after the assignments: a later assignment to a name replaces an
\* earlier one
CheckStatesOf(commit) ==
  LET writes == CheckStateWrites(commit)
      lastWrite(n) == CHOOSE k \in 1..Len(writes) :
                         /\ writes[k].name = n
                         /\ \A j \in (k + 1)..Len(writes) : writes[j].name # n
  IN  [n \in { writes[k].name : k \in 1..Len(writes) } |-> writes[lastWrite(n)].state]

InitChecks ==
  /\ now = FromUnix(2)
  /\ rateLimitKV = <<>>
  /\ dupWindow = <<>>
  /\ msgs = <<>>
  /\ closed = FALSE
  /\ accessTokensKV = <<>>
  /\ configsKV = <<>>
  /\ checkRunsKV = {}
  /\ baseSha \in {2, 3, 5}
  /\ obtained = NotObtained
  /\ merged = {}
  /\ callers = <<>>
  /\ last = [op |-> "init", commit |-> [Contexts |-> <<>>, CheckSuites |-> <<>>],
             details |-> NoDetails, path |-> "", err |-> "nil", calls |-> <<>>]

\* one delivery of the pull_request work item of an open pull request with the merge label
RunWithChecks ==
  \E commit \in CommitsReported :
  \E details \in { Details("OPEN", <<"merge">>, 0, FALSE, "head1", OldCommit,
                           CheckStatesOf(commit)) } :
  \E r \in { pullRequestRunLogic(Context(accessTokensKV, configsKV, checkRunsKV),
                                  NoFailure, baseSha, details, now) } :
     /\ accessTokensKV' = r.c.tok
     /\ configsKV' = r.c.cfgs
     /\ checkRunsKV' = r.c.crs
     /\ obtained' = ObtainedAfter(r.c.cfgFrom, baseSha, now)
     /\ last' = [op |-> "pull_request", commit |-> commit,
                  details |-> FetchedDetails(r.c.calls, details), path |-> r.path,
                  err |-> r.err, calls |-> r.c.calls]
     /\ UNCHANGED <<merged, callers, now, rateLimitKV, dupWindow, msgs, closed, baseSha>>

NextChecks == RunWithChecks

SpecChecks == InitChecks /\ [][NextChecks]_vars

-----------------------------------------------------------------------------
(* Specification of the triggers of one pull request over several rate-limit intervals:
   QueueMessage is called again and again for one fingerprint while the worker takes and
   handles the work items. callers holds the time of the last call QueueMessage
   answered with success (accepted), the time a work item last got to its handler
   (handled) and the number of calls (triggers) *)

\* the last tick of the clock, the number of triggers and the rate-limit interval in ticks
MaxDedupTime == 6
MaxTriggers == 3
DedupInterval == 4

DedupFingerprint == PullRequestFingerprint(1, SvcRepo.NodeID, 1)

InitDedup ==
  /\ now = 0
  /\ rateLimitKV = <<>>
  /\ dupWindow = <<>>
  /\ msgs = <<>>
  /\ closed = FALSE
  /\ accessTokensKV = <<>>
  /\ configsKV = <<>>
  /\ checkRunsKV = {}
  /\ baseSha = 2
  /\ obtained = NotObtained
  /\ merged = {}
  /\ callers = [accepted |-> NoTime, handled |-> NoTime, triggers |-> 0]
  /\ last = NoObservation

\* a webhook of the pull request arrives early enough for its work item to be due
\* before the clock stops: QueueMessage for its fingerprint
Trigger ==
  /\ callers.triggers < MaxTriggers
  /\ \E header \in { QueueMessageHeader(KVGet(rateLimitKV, Md5Hex(DedupFingerprint)),
                                          DedupInterval, Md5Hex(DedupFingerprint), now) } :
        header.DelayUntil.layout = "" \/ ParseRFC3339(header.DelayUntil) <= MaxDedupTime
  /\ \E r \in { QueueMessage(Queue(rateLimitKV, dupWindow, msgs), DedupInterval,
                             "pull_request", DedupFingerprint,
                             QueueMessageData(1, SvcRepo, 1), now, "none") } :
       /\ rateLimitKV' = r.q.kv
       /\ dupWindow' = r.q.dup
       /\ msgs' = r.q.msgs
       /\ callers' = [callers EXCEPT !.triggers = @ + 1,
                                     !.accepted = IF r.err THEN @ ELSE now]
       /\ last' = Observation("trigger", now, 0, "", IF r.err THEN "error" ELSE "nil",
                              NoAck, <<>>, NoDetails, 0, r.q.pubs - r.q.suppressed,
                              r.q.kvOps, NoRequest)
  /\ UNCHANGED <<now, closed, accessTokensKV, configsKV, checkRunsKV, baseSha, obtained,
                 merged>>

\* the select loop of Consume hands a message to handleMessage; the message gets to its
\* handler when it is due
HandleTrigger ==
  \E i \in 1..Len(msgs) :
     /\ msgs[i].st = "chan"
     /\ \E h \in { handleMessage(Context(accessTokensKV, configsKV, checkRunsKV),
                                 Queue(rateLimitKV, dupWindow, msgs), msgs[i], NoFailure,
                                 baseSha, MergeablePR, <<>>, now) } :
          /\ accessTokensKV' = h.c.tok
          /\ configsKV' = h.c.cfgs
          /\ checkRunsKV' = h.c.crs
          /\ rateLimitKV' = h.q.kv
          /\ dupWindow' = h.q.dup
          /\ msgs' = [h.q.msgs EXCEPT ![i] = Acknowledge(Seen(@, h), h.ack, now)]
          /\ callers' = [callers EXCEPT
                           !.handled = IF h.path \in {"bad header", "not before"} THEN @
                                       ELSE now]
          /\ last' = Observation(msgs[i].kind, now, i, h.path, h.err, h.ack, h.c.calls,
                                 FetchedDetails(h.c.calls, MergeablePR), 0, h.q.pubs,
                                 h.q.kvOps, NoRequest)
     /\ UNCHANGED <<now, closed, baseSha, obtained, merged>>

TickDedup ==
  /\ now < MaxDedupTime
  /\ now' = now + 1
  /\ last' = Observation("tick", now + 1, 0, "", "", NoAck, <<>>, NoDetails, 0, 0, 0,
                         NoRequest)
  /\ UNCHANGED <<callers, rateLimitKV, dupWindow, msgs, closed, accessTokensKV, configsKV,
                 checkRunsKV, baseSha, obtained, merged>>

NextDedup == Trigger \/ Fetch \/ HandleTrigger \/ TickDedup

\* the worker keeps running and the clock advances
SpecDedup ==
  /\ InitDedup
  /\ [][NextDedup]_vars
  /\ WF_vars(Fetch)
  /\ WF_vars(HandleTrigger)
  /\ WF_vars(TickDedup)

-----------------------------------------------------------------------------
(* Specification of the acknowledgements of one delivery: handleMessage runs for a message
   in a channel and calls Ack, Nak or NakWithDelay on it; the calls are recorded in
   their order *)

\* the unparsable header is naked and the message goes on to its handler
DelayMessageIfNeededCalls_GoesOn(m, t) ==
  LET delayUntilValue == m.Header.DelayUntil
  IN IF delayUntilValue.layout = "" THEN [delayed |-> FALSE, acks |-> <<>>]
     ELSE IF delayUntilValue.layout # "RFC3339"
          THEN [delayed |-> FALSE, acks |-> <<AckOp("Nak", 0)>>]
     ELSE LET diff == ParseRFC3339(delayUntilValue) - t
          IN IF diff > 0 THEN [delayed |-> TRUE, acks |-> <<AckOp("NakWithDelay", diff)>>]
             ELSE [delayed |-> FALSE, acks |-> <<>>]

\* common.DelayMessageIfNeeded: what it returns and the acknowledgements it calls
DelayMessageIfNeededCalls(m, t) ==
  LET delayUntilValue == m.Header.DelayUntil
  IN IF delayUntilValue.layout = "" THEN [delayed |-> FALSE, acks |-> <<>>]
     ELSE IF delayUntilValue.layout # "RFC3339"
          THEN [delayed |-> TRUE, acks |-> <<AckOp("Nak", 0)>>]
     ELSE LET diff == ParseRFC3339(delayUntilValue) - t
          IN IF diff > 0 THEN [delayed |-> TRUE, acks |-> <<AckOp("NakWithDelay", diff)>>]
             ELSE [delayed |-> FALSE, acks |-> <<>>]

\* the acknowledgements handleMessage calls on the message, in their order
handleMessageCalls(worker, c, q, m, e, sha, details, pullRequests, t) ==
  LET d == DelayMessageIfNeededCalls(m, t)
  IN IF d.delayed THEN d.acks
     ELSE IF ~m.Data.json THEN d.acks \o <<AckOp("NakWithDelay", RetryWait)>>
     ELSE IF worker.AllowOnlyPublicRepositories /\ m.Data.Repository.Private
          THEN d.acks \o <<AckOp("Ack", 0)>>
     ELSE IF ContainsOneOf(worker.AllowedRepositories, <<m.Data.Repository.FullName>>) = ""
          THEN d.acks \o <<AckOp("Ack", 0)>>
     ELSE LET r == IF m.kind = "push"
                   THEN pushRunLogic(c, q, e, sha, m.Data, pullRequests, t)
                   ELSE QueueResult(pullRequestRunLogic(c, e, sha, details, t), q)
          IN IF r.err # "nil"
             THEN d.acks \o <<AckOp("NakWithDelay",
                                    IF r.err = "pushback" THEN r.delay ELSE RetryWait)>>
             ELSE d.acks \o <<AckOp("Ack", 0)>>

\* the not-before headers of a message: none, unparsable, in the future, in the past
AckHeaders(t) ==
  { NoHeader, [layout |-> "garbage", sec |-> 0], FormatRFC3339(t + TicksPerSecond),
    FormatRFC3339(t - TicksPerSecond) }

\* what GitHub answers during the handling: a pull request that is merged, one whose
\* last commit is too recent, an error
AckInputs(t) ==
  { HandlerInput(MergeablePR, NoFailure, <<1>>),
    HandlerInput(Details("OPEN", <<"merge">>, 0, FALSE, "head1", RecentCommit(t), ChecksGreen),
                 NoFailure, <<1>>),
    HandlerInput(NoDetails, Env({"GetAccessToken"}, FALSE), <<>>) }

InitAck ==
  /\ now = FromUnix(2)
  /\ rateLimitKV = <<>>
  /\ dupWindow = <<>>
  /\ msgs = <<>>
  /\ closed = FALSE
  /\ accessTokensKV = <<>>
  /\ configsKV = <<>>
  /\ checkRunsKV = {}
  /\ baseSha = 2
  /\ obtained = NotObtained
  /\ merged = {}
  /\ callers = <<>>
  /\ last \in { [ op |-> "delivery", worker |-> w,
                  m |-> [m EXCEPT !.Header.DelayUntil = header], in |-> in,
                  h |-> NotHandled, acks |-> <<>> ] :
                   w \in WorkerSettings, m \in DeliveredMessages,
                   header \in AckHeaders(FromUnix(2)), in \in AckInputs(FromUnix(2)) }

\* handleMessage runs for the message
HandleAcks ==
  \E h \in { handleMessageOf(last.worker, Context(accessTokensKV, configsKV, checkRunsKV),
                             Queue(rateLimitKV, dupWindow, msgs), last.m, last.in.e,
                             baseSha, last.in.details, last.in.pullRequests, now) } :
     /\ last.op = "delivery"
     /\ last' = [ last EXCEPT
                    !.op = "handled",
                    !.h = h,
                    !.acks = handleMessageCalls(last.worker,
                                                Context(accessTokensKV, configsKV, checkRunsKV),
                                                Queue(rateLimitKV, dupWindow, msgs), last.m,
                                                last.in.e, baseSha, last.in.details,
                                                last.in.pullRequests, now) ]
     /\ UNCHANGED <<callers, now, rateLimitKV, dupWindow, msgs, closed, accessTokensKV,
                    configsKV, checkRunsKV, baseSha, obtained, merged>>

SpecAck == InitAck /\ [][HandleAcks]_vars

-----------------------------------------------------------------------------
(* Properties of the pull-request reconciler *)

\* the last step ran the reconciler, which got its session and the details
Fetched == last.op = "pull_request" /\ Succeeded("GetPullRequestDetails")

HasMergeLabel == ContainsOneOf(ConfigAt(baseSha).Merge.Labels, last.details.Labels) # ""

CheckRunWrites ==
  { k \in 1..Len(last.calls) : last.calls[k].op \in {"CreateCheckRun", "UpdateCheckRun"} }

\* some requiredChecks entry matches no check name of the snapshot
SomeRequiredCheckMissing ==
  \E i \in 1..Len(ConfigAt(baseSha).Merge.RequiredChecks) :
     \A n \in DOMAIN last.details.CheckStates :
        ~Equal(ConfigAt(baseSha).Merge.RequiredChecks[i], n)

\* some check matched by a requiredChecks entry is in a state outside NEUTRAL, SUCCESS, empty
SomeMatchedCheckNotGreen ==
  \E i \in 1..Len(ConfigAt(baseSha).Merge.RequiredChecks) :
     \E n \in DOMAIN last.details.CheckStates :
        /\ Equal(ConfigAt(baseSha).Merge.RequiredChecks[i], n)
        /\ last.details.CheckStates[n] \notin {"NEUTRAL", "SUCCESS", ""}

\* the run came to decide about the merge and nothing before the checks condition decided:
\* the pull request is open with commits and a merge label, the update step had
\* nothing to do, and history and approvals do not skip
ChecksDecideMerge ==
  /\ Fetched
  /\ last.details.State = "OPEN"
  /\ last.details.LastCommitSha # "" /\ last.details.LastCommitTime # NoTime
  /\ HasMergeLabel
  /\ \/ ContainsOneOf(ConfigAt(baseSha).Update.Labels, last.details.Labels) = ""
     \/ last.details.AheadBy = 0
  /\ ~(ConfigAt(baseSha).Merge.RequireLinearHistory /\ last.details.AheadBy # 0)

\* C2: with requiredChecks non-empty, a snapshot in which a required entry matches no
\* check, or a matched check is in a state outside NEUTRAL / SUCCESS / empty, is never
\* merged; when the merge decision comes to the checks condition, the one check-run
\* written is the skip result, "check(s) missing" taking precedence over "check(s) did
\* not succeeded", and once that write succeeded the run returns success (the item is
\* acked).
C2_RequiredChecksGateMerge ==
  (Fetched /\ (SomeRequiredCheckMissing \/ SomeMatchedCheckNotGreen)) =>
     /\ ~Called("MergePullRequest")
     /\ ChecksDecideMerge =>
          /\ Cardinality(CheckRunWrites) = 1
          /\ \A k \in CheckRunWrites :
                /\ last.calls[k].title =
                     IF SomeRequiredCheckMissing THEN "not merging: check(s) missing"
                     ELSE "not merging: check(s) did not succeeded"
                /\ last.calls[k].ok => (last.err = "nil" /\ last.ack = AckOp("Ack", 0))
                /\ ~last.calls[k].ok => last.err = "error"

\* a snapshot with a failed check and a missing one was skipped as "check(s) missing"
C2_Witness ==
  /\ ChecksDecideMerge
  /\ SomeRequiredCheckMissing /\ SomeMatchedCheckNotGreen
  /\ WroteCheckRun("not merging: check(s) missing")
  /\ last.err = "nil"

\* C5: a run of the reconciler on a pull request whose fetched state is not OPEN
\* returns success (the item is acked), takes the same exit every time, writes no check
\* run and issues no merge, update-branch or delete-ref call.
C5_NotOpenIsTerminal ==
  (Fetched /\ last.details.State # "OPEN") =>
     /\ last.err = "nil"
     /\ last.ack = AckOp("Ack", 0)
     /\ last.path = "not open"
     /\ CheckRunWrites = {}
     /\ ~Called("MergePullRequest")
     /\ ~Called("UpdatePullRequest")
     /\ ~Called("DeleteRef")
     /\ last.calls[Len(last.calls)].op = "GetPullRequestDetails"

\* the reconciler ran on a merged pull request that still carries the merge label, with
\* the session already cached by an earlier run
C5_Witness ==
  /\ Fetched
  /\ last.details.State = "MERGED"
  /\ ~Called("GetAccessToken")
  /\ last.ack = AckOp("Ack", 0)

\* C9 as stated: a delivery in which the update-branch mutation succeeded on a pull
\* request with a merge label issues no merge mutation and is nacked with exactly
\* DurationToWaitAfterUpdateBranch.
C9_Original ==
  (last.op = "pull_request" /\ Succeeded("UpdatePullRequest") /\ HasMergeLabel) =>
     /\ ~Called("MergePullRequest")
     /\ last.err = "pushback"
     /\ last.ack = AckOp("NakWithDelay", DurationToWaitAfterUpdateBranch)

\* C9 amended: a delivery in which the update-branch mutation succeeded and the
\* "updated" check run was recorded (did_update), on a pull request with a merge label,
\* issues no merge mutation and is nacked with exactly DurationToWaitAfterUpdateBranch;
\* when the "updated" write fails the delivery issues no merge mutation either and is
\* nacked with RetryWait.
C9_PushBackAfterUpdate ==
  (last.op = "pull_request" /\ Succeeded("UpdatePullRequest") /\ HasMergeLabel) =>
     /\ ~Called("MergePullRequest")
     /\ \A k \in CheckRunWrites :
           last.calls[k].title = "updated" =>
              IF last.calls[k].ok
              THEN /\ last.err = "pushback"
                   /\ last.ack = AckOp("NakWithDelay", DurationToWaitAfterUpdateBranch)
              ELSE /\ last.err = "error"
                   /\ last.ack = AckOp("NakWithDelay", RetryWait)
     /\ \E k \in CheckRunWrites : last.calls[k].title = "updated"

\* the branch of a pull request with both labels was updated and the delivery pushed back
C9_Witness ==
  /\ last.op = "pull_request"
  /\ Succeeded("UpdatePullRequest")
  /\ HasMergeLabel
  /\ \E k \in CheckRunWrites : last.calls[k].title = "updated" /\ last.calls[k].ok
  /\ last.ack = AckOp("NakWithDelay", DurationToWaitAfterUpdateBranch)

HasUpdateLabel == ContainsOneOf(ConfigAt(baseSha).Update.Labels, last.details.Labels) # ""

\* the run reached the update step with an update label, a branch behind its base and
\* conflicts
ConflictingUpdate ==
  /\ Fetched
  /\ last.details.State = "OPEN"
  /\ last.details.LastCommitSha # "" /\ last.details.LastCommitTime # NoTime
  /\ HasUpdateLabel
  /\ last.details.AheadBy > 0
  /\ last.details.HasConflicts

\* C11: for a pull request with a label matching update.labels, ahead_by > 0 and
\* has_conflicts, the reconciler makes no update-branch call and no merge or delete-ref
\* call (also when the pull request carries a merge label), writes exactly one check run,
\* titled "not updating: pull request has conflicts", and once that write succeeded it
\* stops and returns success, so the item is acked and not retried.
C11_ConflictsStopUpdate ==
  ConflictingUpdate =>
     /\ ~Called("UpdatePullRequest")
     /\ ~Called("MergePullRequest")
     /\ ~Called("DeleteRef")
     /\ Cardinality(CheckRunWrites) = 1
     /\ \A k \in CheckRunWrites :
           /\ last.calls[k].title = "not updating: pull request has conflicts"
           /\ last.calls[k].ok =>
                 /\ last.path = "update stopped"
                 /\ last.err = "nil"
                 /\ last.ack = AckOp("Ack", 0)
           /\ ~last.calls[k].ok => last.err = "error"

\* a conflicting pull request that also carries a merge label and green checks was
\* stopped at the update step and acked
C11_Witness ==
  /\ ConflictingUpdate
  /\ HasMergeLabel
  /\ \A n \in DOMAIN last.details.CheckStates :
        last.details.CheckStates[n] \in {"NEUTRAL", "SUCCESS", ""}
  /\ WroteCheckRun("not updating: pull request has conflicts")
  /\ last.ack = AckOp("Ack", 0)

\* the calls of the merge mutation in the last step
MergeCalls == { k \in 1..Len(last.calls) : last.calls[k].op = "MergePullRequest" }

\* C21: the merge mutation is called only for a snapshot fetched earlier in the same
\* run of the reconciler, whose state is OPEN, that has a last commit, that carries a
\* label matching merge.labels, for which the merge skip conditions neither skipped nor
\* failed, and only when no update-branch was called in the same run; it is called once,
\* with the node id of the snapshot and expectedHeadOid equal to its last commit sha.
C21_MergeOnlyForFreshOpenSnapshot ==
  \A k \in MergeCalls :
     /\ last.op = "pull_request"
     /\ \E j \in 1..(k - 1) :
           last.calls[j].op = "GetPullRequestDetails" /\ last.calls[j].ok
     /\ last.details.State = "OPEN"
     /\ last.details.LastCommitSha # "" /\ last.details.LastCommitTime # NoTime
     /\ HasMergeLabel
     /\ ~shouldSkipMerge(ConfigAt(baseSha), last.details, last.at).SkipAction
     /\ shouldSkipMerge(ConfigAt(baseSha), last.details, last.at).err = "nil"
     /\ ~Called("UpdatePullRequest")
     /\ Cardinality(MergeCalls) = 1
     /\ last.calls[k].pullRequestId = last.details.ID
     /\ last.calls[k].expectedHeadOid = last.details.LastCommitSha

\* the snapshot with head head2 was merged: the mutation was answered with success
C21_Witness ==
  /\ last.op = "pull_request"
  /\ last.details.LastCommitSha = "head2"
  /\ \E k \in MergeCalls : last.calls[k].ok /\ last.calls[k].expectedHeadOid = "head2"
  /\ last.path \in {"merged", "merged and deleted"}

\* the calls of the update-branch mutation in the last step
UpdateCalls == { k \in 1..Len(last.calls) : last.calls[k].op = "UpdatePullRequest" }

UpdateTitles ==
  { "updating", "updated", "error during update",
    "not updating: pull request has conflicts", "not updating: title is in ignore list",
    "not updating: label is in ignore list", "not updating: author is in ignore list" }

\* the returns of runLogic that lie behind the merge decision
MergeDecisionPaths ==
  {"merge error", "merge stopped", "merged", "merged and deleted", "delete error",
   "nothing to do"}

\* the snapshot is open with commits, carries an update label and is level with its base
UpToDateWithUpdateLabel ==
  /\ Fetched
  /\ last.details.State = "OPEN"
  /\ last.details.LastCommitSha # "" /\ last.details.LastCommitTime # NoTime
  /\ HasUpdateLabel
  /\ last.details.AheadBy = 0

\* C22: the update-branch mutation is called only when update.labels is non-empty, the
\* snapshot carries a label matching update.labels, ahead_by > 0, has_conflicts is false
\* and the update skip conditions (title, label, author ignore lists of the session's
\* config) did not skip; it is called once, for the snapshot's node id and head. With
\* ahead_by = 0 the update step writes no check-run and the run goes on to the merge
\* decision: with a merge label the first check-run written is the merge path's.
C22_UpdateOnlyWhenBehind ==
  /\ \A k \in UpdateCalls :
        /\ last.op = "pull_request"
        /\ Len(ConfigAt(baseSha).Update.Labels) > 0
        /\ HasUpdateLabel
        /\ last.details.State = "OPEN"
        /\ last.details.AheadBy > 0
        /\ ~last.details.HasConflicts
        /\ ~shouldSkipUpdate(ConfigAt(baseSha), last.details).SkipAction
        /\ Cardinality(UpdateCalls) = 1
        /\ last.calls[k].pullRequestId = last.details.ID
        /\ last.calls[k].expectedHeadOid = last.details.LastCommitSha
  /\ UpToDateWithUpdateLabel =>
        /\ \A k \in CheckRunWrites : last.calls[k].title \notin UpdateTitles
        /\ last.path \in MergeDecisionPaths
        /\ (HasMergeLabel /\ last.path # "merge error") => CheckRunWrites # {}
        /\ ~HasMergeLabel => (CheckRunWrites = {} /\ last.path = "nothing to do")

\* a pull request behind its base, without conflicts, was updated
C22_Witness ==
  /\ last.op = "pull_request"
  /\ \E k \in UpdateCalls : last.calls[k].ok
  /\ last.details.AheadBy = 1
  /\ WroteCheckRun("updated")

\* a pull request level with its base that carries both labels went on to be merged
UpToDateWasMerged ==
  /\ UpToDateWithUpdateLabel
  /\ HasMergeLabel
  /\ Succeeded("MergePullRequest")

-----------------------------------------------------------------------------
(* Properties of the check runs *)

MergeTitles ==
  { "merging head into base", "error during merge",
    "not merging: title is in ignore list", "not merging: label is in ignore list",
    "not merging: author is in ignore list", "not merging: a linear history is required",
    "not merging: missing required approvals", "not merging: approval(s) missing",
    "not merging: check(s) missing", "not merging: check(s) did not succeeded" }

\* the check-run writes of the update decision and of the merge decision of the last run
UpdateWrites == { k \in CheckRunWrites : last.calls[k].title \in UpdateTitles }
MergeWrites == { k \in CheckRunWrites : last.calls[k].title \in MergeTitles }

\* the write k is followed by the mutation op and then by a write titled title
BracketsMutation(writes, k, op, title) ==
  \E m \in 1..Len(last.calls), j \in writes :
     /\ k < m /\ m < j
     /\ last.calls[m].op = op
     /\ last.calls[j].title = title

\* C24 as stated: a decision of the reconciler that writes a check-run makes exactly one
\* create-or-update call.
C24_Original ==
  last.op = "pull_request" => (Cardinality(UpdateWrites) <= 1 /\ Cardinality(MergeWrites) <= 1)

\* C24: the check-run writes of a run belong to one decision, the update decision or the
\* merge decision, which makes at most two create-or-update calls. A decision not to act
\* (conflicts, a skip condition) makes exactly one. A decision to act writes "updating"
\* ("merging ...") before its mutation; an update-branch mutation that succeeded is
\* followed by the write "updated", a mutation that failed is followed by at most one
\* write, "error during update" ("error during merge"), and a merge mutation that
\* succeeded by none.
C24_WritesPerDecision ==
  last.op = "pull_request" =>
     /\ CheckRunWrites = UpdateWrites \cup MergeWrites
     /\ UpdateWrites = {} \/ MergeWrites = {}
     /\ Cardinality(UpdateWrites) <= 2 /\ Cardinality(MergeWrites) <= 2
     /\ \A k \in CheckRunWrites :
           last.calls[k].title \notin {"updating", "updated", "error during update",
                                       "merging head into base", "error during merge"}
              => Cardinality(CheckRunWrites) = 1
     /\ Cardinality(UpdateWrites) = 2 =>
           \E k \in UpdateWrites :
              /\ last.calls[k].title = "updating"
              /\ \/ Succeeded("UpdatePullRequest")
                    /\ BracketsMutation(UpdateWrites, k, "UpdatePullRequest", "updated")
                 \/ ~Succeeded("UpdatePullRequest")
                    /\ BracketsMutation(UpdateWrites, k, "UpdatePullRequest",
                                        "error during update")
     /\ Succeeded("UpdatePullRequest") =>
           (Cardinality(UpdateWrites) = 2 /\ \E k \in UpdateWrites : last.calls[k].title = "updated")
     /\ Cardinality(MergeWrites) = 2 =>
           \E k \in MergeWrites :
              /\ last.calls[k].title = "merging head into base"
              /\ ~Succeeded("MergePullRequest")
              /\ BracketsMutation(MergeWrites, k, "MergePullRequest", "error during merge")
     /\ Succeeded("MergePullRequest") =>
           (Cardinality(MergeWrites) = 1
              /\ \A k \in MergeWrites : last.calls[k].title = "merging head into base")

\* an update decision wrote "updating" and, after the mutation, "updated"
C24_Witness ==
  /\ last.op = "pull_request"
  /\ Succeeded("UpdatePullRequest")
  /\ Cardinality(UpdateWrites) = 2
  /\ \A k \in UpdateWrites : last.calls[k].ok


\* C25: within a run of the reconciler, whose check-run writes are all for one
\* (pull request node id, head sha), once a write has completed (the mutation was
\* performed and the record was put into the check-runs bucket) every later write is an
\* updateCheckRun of the recorded check run, so that GitHub performs at most one
\* createCheckRun for the pair.
C25_LaterWritesUpdate ==
  last.op = "pull_request" =>
     /\ \A j, k \in CheckRunWrites :
           (j < k /\ last.calls[j].ok) => last.calls[k].op = "UpdateCheckRun"
     /\ Cardinality({ k \in CheckRunWrites :
                        last.calls[k].op = "CreateCheckRun" /\ last.calls[k].answered }) <= 1

-----------------------------------------------------------------------------
(* Properties of the skip conditions *)

SkipConditionsRan == last.op = "should_skip"

\* the entries (by index) of requireApprovalsFrom that no approver's login matches:
\* a login matches an entry when it equals its text case-insensitively or the entry's
\* regex finds a match in it
EntriesWithoutApprover ==
  { i \in 1..Len(last.cfg.RequireApprovalsFrom) :
      \A j \in 1..Len(last.details.ApprovedBy) :
         /\ Lower(last.details.ApprovedBy[j]) # Lower(last.cfg.RequireApprovalsFrom[i])
         /\ ~RegexMatchString(last.cfg.RequireApprovalsFrom[i], last.details.ApprovedBy[j]) }

\* C12: the approvals condition skips the merge if requiredApprovals exceeds the number
\* of approvals; otherwise, with requireApprovalsFrom non-empty, it skips exactly when
\* some listed entry is matched by no approver's login; it does not skip when both
\* requirements are met.
C12_ApprovalsCondition ==
  SkipConditionsRan =>
     /\ last.reviews.err = "nil"
     /\ IF last.cfg.RequiredApprovals > Len(last.details.ApprovedBy)
        THEN last.reviews.SkipAction /\ last.reviews.Title = "missing required approvals"
        ELSE IF EntriesWithoutApprover # {}
        THEN last.reviews.SkipAction /\ last.reviews.Title = "approval(s) missing"
        ELSE ~last.reviews.SkipAction

\* two approvals were required and given, one of the two listed reviewers had approved
\* and the other had not, and the condition skipped
C12_Witness ==
  /\ SkipConditionsRan
  /\ last.cfg.RequiredApprovals = 2
  /\ Len(last.details.ApprovedBy) = 2
  /\ Cardinality(EntriesWithoutApprover) = 1
  /\ Len(last.cfg.RequireApprovalsFrom) = 2
  /\ last.reviews.SkipAction

\* some entry of the ignore list sl matches the string: it equals the entry's text
\* case-insensitively, or the entry compiled as a regex finds a match in it
MatchesSomeEntry(sl, str) ==
  \E i \in 1..Len(sl) : Lower(str) = Lower(sl[i]) \/ RegexMatchString(sl[i], str)

\* C13: the title, label and author conditions skip if and only if the title, some
\* label, or the author of the pull request matches at least one entry of
\* IgnoreWithTitles, ignoreWithLabels or IgnoreFromUsers respectively; with an empty
\* list the condition never skips.
C13_IgnoreListConditions ==
  SkipConditionsRan =>
     /\ last.title.SkipAction
          <=> MatchesSomeEntry(last.cfg.IgnoreConfig.IgnoreWithTitles, last.details.Title)
     /\ last.label.SkipAction
          <=> \E l \in 1..Len(last.details.Labels) :
                 MatchesSomeEntry(last.cfg.IgnoreConfig.ignoreWithLabels, last.details.Labels[l])
     /\ last.author.SkipAction
          <=> MatchesSomeEntry(last.cfg.IgnoreConfig.IgnoreFromUsers, last.details.Author)
     /\ last.cfg.IgnoreConfig.IgnoreWithTitles = <<>> => ~last.title.SkipAction
     /\ last.cfg.IgnoreConfig.ignoreWithLabels = <<>> => ~last.label.SkipAction
     /\ last.cfg.IgnoreConfig.IgnoreFromUsers = <<>> => ~last.author.SkipAction
     /\ last.title.err = "nil" /\ last.label.err = "nil" /\ last.author.err = "nil"

\* C15: the linear-history condition skips the merge if and only if
\* requireLinearHistory is set and ahead_by > 0.
C15_LinearHistoryCondition ==
  SkipConditionsRan =>
     /\ last.history.SkipAction
          <=> (last.cfg.RequireLinearHistory /\ last.details.AheadBy > 0)
     /\ last.history.SkipAction => last.history.Title = "a linear history is required"
     /\ last.history.err = "nil"

\* with requireLinearHistory set, a branch two commits behind its base was skipped
C15_Witness ==
  /\ SkipConditionsRan
  /\ last.cfg.RequireLinearHistory
  /\ last.details.AheadBy = 2
  /\ last.history.SkipAction

\* the results of the conditions in the order of the merge path and of the update path
MergeConditions ==
  <<last.title, last.label, last.author, last.history, last.reviews, last.checks>>
UpdateConditions == <<last.title, last.label, last.author>>

Skips(results, i) == results[i].SkipAction
NoneSkipsBefore(results, i) == \A j \in 1..(i - 1) : ~Skips(results, j)

\* the result reported for the conditions results: that of the first one that skips, its
\* title behind prefix; no skip when none does
ReportedFor(results, prefix, reported) ==
  /\ \A i \in 1..Len(results) :
        (Skips(results, i) /\ NoneSkipsBefore(results, i)) =>
           /\ reported.SkipAction
           /\ reported.Title = prefix \o results[i].Title
  /\ (\A i \in 1..Len(results) : ~Skips(results, i)) =>
        (~reported.SkipAction /\ reported.Title = "")

\* C23: the merge path takes the result of the first of title-in-ignore-list,
\* label-in-ignore-list, author-in-ignore-list, linear-history-required, approvals and
\* checks that skips, whatever the conditions after it say, and reports that condition's
\* title prefixed with "not merging: "; the update path does the same with the first
\* three conditions and "not updating: ".
C23_FirstSkipWins ==
  SkipConditionsRan =>
     /\ ReportedFor(MergeConditions, "not merging: ", last.merge)
     /\ ReportedFor(UpdateConditions, "not updating: ", last.update)

\* the author condition skipped first while approvals and checks would have skipped too
C23_Witness ==
  /\ SkipConditionsRan
  /\ ~last.title.SkipAction /\ ~last.label.SkipAction
  /\ last.author.SkipAction /\ last.reviews.SkipAction /\ last.checks.SkipAction
  /\ last.merge.Title = "not merging: author is in ignore list"
  /\ last.update.Title = "not updating: author is in ignore list"

-----------------------------------------------------------------------------
(* Properties of the policy file *)

\* the policy file at the head of the default branch is a version 1 file and the list
\* (as written in the file) has an entry that matches a label of the fetched snapshot
LabelIgnoredByFile(list) ==
  /\ PolicyFileAt(baseSha).status = 200
  /\ PolicyFileAt(baseSha).file.version = 1
  /\ \E l \in 1..Len(last.details.Labels) : MatchesSomeEntry(list, last.details.Labels[l])

\* C14: an ignoreWithLabels list written in the policy file takes effect, for the
\* config parsed from the file and for the config read back from the configs cache: a
\* pull request with a label matching an entry of merge.ignoreWithLabels is never merged,
\* one with a label matching an entry of update.ignoreWithLabels is never updated.
C14_IgnoreWithLabelsTakesEffect ==
  Fetched =>
     /\ LabelIgnoredByFile(PolicyFileAt(baseSha).file.merge.ignoreWithLabels)
          => ~Called("MergePullRequest")
     /\ LabelIgnoredByFile(PolicyFileAt(baseSha).file.update.ignoreWithLabels)
          => ~Called("UpdatePullRequest")

-----------------------------------------------------------------------------
(* Properties of the session caches *)

\* C6: at the moment of every remote call of a reconciler, the access token it carries
\* satisfies expires_at > now.
C6_NoExpiredTokenSent ==
  last.op = "pull_request" =>
     \A k \in 1..Len(last.calls) :
        last.calls[k].exp # NoTime => last.calls[k].exp > last.at

\* C7 as stated: while the sha of the base branch is unchanged and the configs bucket
\* TTL since the config was first obtained has not passed, no run calls GetConfig,
\* whether the repository has a policy file or not.
C7_Original ==
  [][ ( /\ last'.op = "pull_request" /\ last' # last
        /\ obtained.sha = baseSha
        /\ now < obtained.at + ConfigsBucketTTL )
      => \A k \in 1..Len(last'.calls) : last'.calls[k].op # "GetConfig" ]_vars

\* C7 amended: the same, for a repository that has a policy file at that sha (the
\* config was obtained from the file and cached); without a policy file the default
\* config is not cached and every run calls GetConfig.
C7_NoRefetchOfCachedFile ==
  [][ ( /\ last'.op = "pull_request" /\ last' # last
        /\ obtained.sha = baseSha
        /\ now < obtained.at + ConfigsBucketTTL
        /\ obtained.from = "file" )
      => \A k \in 1..Len(last'.calls) : last'.calls[k].op # "GetConfig" ]_vars

\* a later run, at a later time inside the TTL, worked from the cached config of the file
C7_Witness ==
  /\ last.op = "pull_request"
  /\ obtained.sha = baseSha /\ obtained.from = "file"
  /\ last.at > obtained.at /\ last.at < obtained.at + ConfigsBucketTTL
  /\ Succeeded("GetPullRequestDetails")
  /\ ~Called("GetConfig")

-----------------------------------------------------------------------------
(* Properties of the ingress *)

\* the request is a webhook event: a POST to the root with a body that decodes
IsWebhookEvent(req) ==
  req.method = "POST" /\ req.uri \in {"/", ""} /\ req.readable /\ req.body.json

\* C8: for a webhook event of any kind whose repository full_name matches no allowlist
\* entry, the ingress responds 200, publishes nothing and neither reads nor writes the
\* rate-limit KV.
C8_NotAllowedIsIgnored ==
  ( /\ last.op = "webhook"
    /\ IsWebhookEvent(last.req)
    /\ ContainsOneOf(ServerAllowedRepositories, <<last.req.body.Repository.FullName>>) = "" )
  => (last.status = 200 /\ last.pubs = 0 /\ last.kvOps = 0)

\* a push of a repository outside the allowlist arrives while the stream holds a message
\* of an allowed repository
C8_Witness ==
  /\ last.op = "webhook"
  /\ last.req = PushOf(EvilRepo)
  /\ last.status = 200
  /\ Len(msgs) = 1

\* the last step served a webhook event of the given kind that is valid (its body
\* decodes into the event's request struct and carries the five identifying fields) and
\* whose repository is allowed
ValidAllowedEvent(event) ==
  /\ last.op = "webhook"
  /\ IsWebhookEvent(last.req)
  /\ last.req.event = event
  /\ last.req.body.typed
  /\ last.req.body.InstallationID # 0
  /\ last.req.body.Repository.NodeID # "" /\ last.req.body.Repository.FullName # ""
  /\ last.req.body.Repository.Name # "" /\ last.req.body.Repository.OwnerLogin # ""
  /\ ContainsOneOf(ServerAllowedRepositories, <<last.req.body.Repository.FullName>>) # ""
  /\ ~(AllowOnlyPublicRepositories /\ last.req.body.Repository.Private)

\* the pull_request work items of the stream for the given number of the request's
\* repository
StoredFor(number) ==
  { k \in 1..Len(msgs) :
      /\ msgs[k].kind = "pull_request"
      /\ msgs[k].Data = QueueMessageData(last.req.body.InstallationID,
                                         last.req.body.Repository, number) }

\* C17: for a valid, allow-listed pull_request webhook the ingress enqueues a
\* pull_request work item if and only if action is one of created, opened, labeled,
\* reopened, synchronize, edited, pull_request.state is "open" and number is not 0 (it
\* publishes one item for that number and answers 200, or answers 500 when the queue
\* fails); in every other case it responds 200 and publishes nothing.
C17_PullRequestEventFilter ==
  ValidAllowedEvent("pull_request") =>
     IF /\ last.req.body.Action \in {"created", "opened", "labeled", "reopened",
                                       "synchronize", "edited"}
        /\ last.req.body.State = "open"
        /\ last.req.body.Number # 0
     THEN /\ last.status \in {200, 500}
          /\ last.status = 200 => (last.pubs = 1 /\ StoredFor(last.req.body.Number) # {})
          /\ last.kvOps > 0
     ELSE last.status = 200 /\ last.pubs = 0 /\ last.kvOps = 0

\* a synchronize event of an open pull request was enqueued into an empty stream
C17_Witness ==
  /\ ValidAllowedEvent("pull_request")
  /\ last.req.body.Action = "synchronize"
  /\ last.status = 200
  /\ last.pubs = 1
  /\ Len(msgs) = 1 /\ StoredFor(1) = {1}

\* the distinct non-zero numbers of the two pull_requests lists of the request
CheckRunNumbers ==
  { last.req.body.CheckRunPRs[k] : k \in 1..Len(last.req.body.CheckRunPRs) } \ {0}

\* C18: for a check_run webhook with action "completed" the ingress enqueues exactly
\* one pull_request work item per distinct non-zero number of check_run.pull_requests
\* and check_run.check_suite.pull_requests combined (one publish per number and an item
\* for every number once it answered 200; never more publishes than numbers), and
\* publishes nothing when there is no such number.
C18_CheckRunFanOut ==
  (ValidAllowedEvent("check_run") /\ last.req.body.Action = "completed") =>
     /\ last.status \in {200, 500}
     /\ last.pubs <= Cardinality(CheckRunNumbers)
     /\ last.status = 200 =>
           /\ last.pubs = Cardinality(CheckRunNumbers)
           /\ last.kvOps = 2 * Cardinality(CheckRunNumbers)
           /\ \A n \in CheckRunNumbers : StoredFor(n) # {}
     /\ StoredFor(0) = {}
     /\ CheckRunNumbers = {} => (last.status = 200 /\ last.pubs = 0 /\ last.kvOps = 0)

\* a completed check run naming the pull requests 2, 0, 1, 2 put one item for 1 and one
\* for 2 into the empty stream
C18_Witness ==
  /\ ValidAllowedEvent("check_run")
  /\ last.req.body.Action = "completed"
  /\ Len(last.req.body.CheckRunPRs) = 4
  /\ last.status = 200
  /\ last.pubs = 2
  /\ Len(msgs) = 2
  /\ Cardinality(StoredFor(1)) = 1 /\ Cardinality(StoredFor(2)) = 1

\* one of the five identifying fields is missing from the body of the request
FieldMissing ==
  \/ last.req.body.InstallationID = 0
  \/ last.req.body.Repository.NodeID = ""
  \/ last.req.body.Repository.FullName = ""
  \/ last.req.body.Repository.Name = ""
  \/ last.req.body.Repository.OwnerLogin = ""

\* C19: when installation.id, repository.node_id, repository.full_name, repository.name
\* or repository.owner.login is missing from the body of a webhook event, the ingress
\* responds 200 and enqueues nothing (no publish, no rate-limit KV access), whatever
\* the event kind.
C19_MissingFieldIsDropped ==
  (last.op = "webhook" /\ IsWebhookEvent(last.req) /\ FieldMissing) =>
     (last.status = 200 /\ last.pubs = 0 /\ last.kvOps = 0)

\* a labeled event of an allowed repository without repository.owner.login was dropped
\* while the stream holds an item
C19_Witness ==
  /\ last.op = "webhook"
  /\ last.req.event = "pull_request"
  /\ last.req.body.Action = "labeled"
  /\ last.req.body.Repository.FullName = "acme/svc"
  /\ last.req.body.Repository.OwnerLogin = ""
  /\ last.req.body.Number = 1
  /\ last.status = 200
  /\ Len(msgs) = 1

-----------------------------------------------------------------------------
(* Properties of concurrent ingress calls *)

Undelayed(i) == callers[i].header.DelayUntil = NoHeader

\* C16: when two callers run QueueMessage for one fingerprint with their KV-get,
\* publish and KV-put steps interleaved (both have published before either has put),
\* at most one of the two work items is published without a not-before header.
C16_OneUndelayedOfTwo ==
  \A i, j \in DOMAIN callers :
     (i # j /\ callers[i].pc = "published" /\ callers[j].pc = "published")
        => ~(Undelayed(i) /\ Undelayed(j))

-----------------------------------------------------------------------------
(* Properties of the pipeline *)

HandledMessage == last.op \in {"push", "pull_request"}

SameFingerprint(a, b) == a.Data.json /\ b.Data.json /\ a.kind = b.kind /\ a.Data = b.Data

\* C1: of the work items of one fingerprint that pass through QueueMessage within one
\* rate_limit_interval, at most one gets past the not-before check before the interval
\* has elapsed.
C1_OneVisiblePerInterval ==
  \A i, j \in 1..Len(msgs) :
     ( /\ i # j
       /\ SameFingerprint(msgs[i], msgs[j])
       /\ msgs[i].pubAt <= msgs[j].pubAt
       /\ msgs[j].pubAt < msgs[i].pubAt + RateLimitInterval
       /\ msgs[i].seen /\ msgs[j].seen )
     => now >= msgs[i].pubAt + RateLimitInterval

\* C3 as stated: a message handed to handleMessage is acked if and only if the handler
\* was invoked for it and returned success.
C3_Original ==
  HandledMessage => (last.ack.op = "Ack" <=> last.err = "nil")

\* C3 amended: a message handed to handleMessage is acked if and only if the handler was
\* invoked for it and returned success, or the message was filtered out (repository
\* not allowed, or private under the public-only setting) before any handler ran; in
\* every other case it is nacked.
C3_AckedIffSuccessOrFiltered ==
  HandledMessage =>
     /\ last.ack.op = "Ack" <=> (last.err = "nil" \/ last.path \in {"private", "not allowed"})
     /\ last.ack.op \in {"Ack", "Nak", "NakWithDelay"}
     /\ last.path \in {"private", "not allowed"} => last.err = ""

\* a message of a repository the worker does not allow was acked without a handler
C3_Witness ==
  /\ HandledMessage
  /\ last.path = "not allowed"
  /\ last.ack.op = "Ack"
  /\ msgs[last.idx].st = "acked"

C10_RedeliveredAfterUpdate ==
  (HandledMessage /\ last.path = "just updated") => msgs[last.idx].st = "pending"


\* C20: when the handler returns an error, the message is nacked with the push-back's
\* own delay if the error is a push-back error, returned directly (the branch was just
\* updated: DurationToWaitAfterUpdateBranch) or wrapped on its way up from the checks
\* condition (the rest of the wait after the last commit), and with RetryWait for any
\* other error; a payload that does not decode is nacked with RetryWait as well.
C20_NackDelayFollowsError ==
  HandledMessage =>
     /\ last.err = "pushback" => last.path \in {"just updated", "merge error"}
     /\ (last.err = "pushback" /\ last.path = "just updated") =>
           last.ack = AckOp("NakWithDelay", DurationToWaitAfterUpdateBranch)
     /\ (last.err = "pushback" /\ last.path = "merge error") =>
           /\ last.ack = AckOp("NakWithDelay",
                               (last.details.LastCommitTime + DurationToWaitAfterUpdateBranch)
                                 - last.at)
           /\ last.ack.delay > 0
     /\ last.err = "error" => last.ack = AckOp("NakWithDelay", RetryWait)
     /\ last.path = "decode error" => last.ack = AckOp("NakWithDelay", RetryWait)

\* the checks condition pushed a merge back for longer than RetryWait, the error came up
\* wrapped through mergePullRequest and runLogic, and the message waits for that delay
C20_Witness ==
  /\ HandledMessage
  /\ last.err = "pushback"
  /\ last.path = "merge error"
  /\ last.ack.op = "NakWithDelay"
  /\ last.ack.delay > RetryWait
  /\ msgs[last.idx].st = "pending"
  /\ msgs[last.idx].availableAt = last.at + last.ack.delay

\* the step hands the message i of a channel to handleMessage
HandlesMessage(i) ==
  /\ i \in 1..Len(msgs)
  /\ msgs[i].st = "chan"
  /\ last' # last
  /\ last'.op \in {"push", "pull_request"}
  /\ last'.idx = i

\* the not-before time of a message whose header parses
NotBefore(m) == ParseRFC3339(m.Header.DelayUntil)

\* C26: a message whose not-before header lies after now is negatively acknowledged
\* with the delay not_before - now, and no handler runs for it (nothing is decoded, no
\* remote call, no publish); a message without the header, or whose not-before time has
\* passed, goes on to the decoding and the handler.
C26_NotBeforeDelays ==
  [][ \A i \in 1..Len(msgs) :
        HandlesMessage(i) =>
           /\ (msgs[i].Header.DelayUntil.layout = "RFC3339" /\ now < NotBefore(msgs[i])) =>
                 /\ last'.ack = AckOp("NakWithDelay", NotBefore(msgs[i]) - now)
                 /\ last'.path = "not before"
                 /\ last'.err = ""
                 /\ last'.calls = <<>>
                 /\ last'.pubs = 0
                 /\ Len(msgs') = Len(msgs)
           /\ ( \/ msgs[i].Header.DelayUntil = NoHeader
                \/ msgs[i].Header.DelayUntil.layout = "RFC3339" /\ now >= NotBefore(msgs[i]) ) =>
                 /\ last'.path \notin {"not before", "bad header"}
                 /\ msgs[i].Data.json => last'.path # "decode error" ]_vars

\* a delayed work item was taken before its time and put back for the time that was left
C26_Witness ==
  /\ HandledMessage
  /\ last.path = "not before"
  /\ last.ack.op = "NakWithDelay" /\ last.ack.delay > 0
  /\ msgs[last.idx].st = "pending"
  /\ msgs[last.idx].availableAt = last.at + last.ack.delay
  /\ msgs[last.idx].availableAt = NotBefore(msgs[last.idx])

-----------------------------------------------------------------------------
(* Properties of handleMessage *)

DeliveryHandled == last.op = "handled"

\* the work item decodes and its repository is private under the public-only setting, or
\* its full name matches no entry of the worker's allowlist
Filtered ==
  /\ last.m.Data.json
  /\ \/ last.worker.AllowOnlyPublicRepositories /\ last.m.Data.Repository.Private
     \/ \A i \in 1..Len(last.worker.AllowedRepositories) :
           ~Equal(last.worker.AllowedRepositories[i], last.m.Data.Repository.FullName)

Malformed == ~last.m.Data.json

\* no handler ran: no remote call, nothing published
NoHandlerRan == last.h.c.calls = <<>> /\ last.h.q.pubs = 0 /\ last.h.err = ""

\* C27 as stated: filtered and malformed work items are acked without a handler and
\* never delivered again.
C27_Original ==
  (DeliveryHandled /\ (Filtered \/ Malformed)) =>
     (last.h.ack.op = "Ack" /\ NoHandlerRan /\ last.after.st = "acked")

\* C27: a filtered work item is acked without a handler and is not delivered again; a
\* work item whose payload does not decode gets no handler either, but is nacked with
\* retry_wait, to be delivered again after retry_wait until it was delivered
\* max_deliver times; any other work item gets its handler.
C27_FilteredAckedMalformedNacked ==
  DeliveryHandled =>
     /\ Filtered => (last.h.ack = AckOp("Ack", 0) /\ NoHandlerRan /\ last.after.st = "acked")
     /\ Malformed =>
           /\ last.h.ack = AckOp("NakWithDelay", RetryWait)
           /\ NoHandlerRan
           /\ IF last.m.deliveries < MaxDeliver
              THEN last.after.st = "pending" /\ last.after.availableAt = now + RetryWait
              ELSE last.after.st = "dropped"
     /\ ~(Filtered \/ Malformed) => last.h.c.calls # <<>>

\* a private repository the allowlist names was filtered out under the public-only setting
C27_Witness ==
  /\ DeliveryHandled
  /\ Filtered
  /\ last.m.Data.Repository = PrivateSvcRepo
  /\ last.worker.AllowedRepositories = <<"acme/svc">>
  /\ last.h.path = "private"
  /\ last.after.st = "acked"

-----------------------------------------------------------------------------
(* Properties of the fan-out *)

\* the search of the run succeeded
Searched(r) ==
  \E k \in 1..Len(r.c.calls) : r.c.calls[k].op = "GetPullRequests" /\ r.c.calls[k].ok

\* the positions in the search answer whose QueueMessage call fails, and those whose
\* call gets as far as the publish
FailedChildren ==
  { k \in 1..Len(last.pullRequests) : QueueFailureAt(last.e, k) # "none" }
PublishedChildren ==
  { k \in 1..Len(last.pullRequests) : QueueFailureAt(last.e, k) \in {"none", "kvput"} }

\* the work item of the k-th number is in the stream, or the stream suppressed it as a
\* duplicate of the one in its window, and the rate-limit bucket has its record
Enqueued(r, k) ==
  /\ \/ \E i \in 1..Len(r.q.msgs) :
           /\ r.q.msgs[i].kind = "pull_request"
           /\ r.q.msgs[i].Data = QueueMessageData(1, SvcRepo, last.pullRequests[k])
     \/ Md5Hex(PullRequestFingerprint(1, SvcRepo.NodeID, last.pullRequests[k]))
          \in DOMAIN last.q.dup
  /\ KVGet(r.q.kv, Md5Hex(PullRequestFingerprint(1, SvcRepo.NodeID, last.pullRequests[k])))
       = Unix(now)

FanOutReturns(r) ==
  Searched(r) /\ last.pullRequests # <<>> =>
    /\ r.q.kvOps >= Len(last.pullRequests)
    /\ r.q.pubs = Cardinality(PublishedChildren)
    /\ r.err \in {"nil", "error"}
    /\ r.err = "nil" <=> FailedChildren = {}
    /\ Len(r.errors) = Cardinality(FailedChildren)
    /\ \A k \in 1..Len(r.errors) : r.errors[k] \in FailedChildren
    /\ r.err = "nil" => \A k \in 1..Len(last.pullRequests) : Enqueued(r, k)
    /\ r.err = "error" => AckForResult(r.err, r.delay) = AckOp("NakWithDelay", RetryWait)

FannedOut(r) == \E k \in 1..Len(r.c.calls) : r.c.calls[k].op = "GetPullRequests"

\* the run got a config: the token, the sha and the policy file were obtained
GotConfig ==
  /\ last.e.fail \cap {"GetAccessToken", "GetLatestBaseCommitSha", "GetConfig"} = {}
  /\ PolicyFileAt(baseSha).status = 404 \/ ~parseConfig(PolicyFileAt(baseSha).file).err

\* C29: for the same message, policy file and answers of GitHub and NATS the push
\* reconciler and the status reconciler make the same calls, publish the same work items
\* and return the same result; with a config obtained each skips the search only when
\* update.labels and merge.labels are both empty
C29_PushAndStatusAgree ==
  last.op = "fan_out" =>
    /\ last.push.c.calls = last.status.c.calls
    /\ last.push.q = last.status.q
    /\ last.push.err = last.status.err
    /\ GotConfig =>
         /\ FannedOut(last.push)
              <=> ConfigAt(baseSha).Update.Labels \o ConfigAt(baseSha).Merge.Labels # <<>>
         /\ FannedOut(last.status)
              <=> ConfigAt(baseSha).Update.Labels \o ConfigAt(baseSha).Merge.Labels # <<>>

\* the two differ only for a policy file without update labels and with merge labels
PushAndStatusDifferOnlyWithoutUpdateLabels ==
  ConfigAt(baseSha).Update.Labels # <<>> \/ ConfigAt(baseSha).Merge.Labels = <<>>
    => C29_PushAndStatusAgree

-----------------------------------------------------------------------------
(* Properties of the policy file's version *)

\* the policy file at the head of the default branch declares a version other than 1
UnknownVersion ==
  PolicyFileAt(baseSha).status = 200 /\ PolicyFileAt(baseSha).file.version # 1

\* C30: when the policy file of the repository declares a version other than 1, every
\* delivery of a work item that reaches its handler ends with the handler's error and a
\* nack with retry_wait: the item is delivered again after retry_wait until it was
\* delivered max_deliver times and is dropped then; the handler makes no update-branch,
\* merge or check-run call, publishes nothing and leaves the configs bucket as it was
C30_UnknownVersionIsRetriedThenDropped ==
  (DeliveryHandled /\ UnknownVersion /\ ~(Filtered \/ Malformed)) =>
     /\ last.h.err = "error"
     /\ last.h.ack = AckOp("NakWithDelay", RetryWait)
     /\ IF last.m.deliveries < MaxDeliver
        THEN last.after.st = "pending" /\ last.after.availableAt = now + RetryWait
        ELSE last.after.st = "dropped"
     /\ \A k \in 1..Len(last.h.c.calls) :
           last.h.c.calls[k].op \notin { "UpdatePullRequest", "MergePullRequest",
                                         "CreateCheckRun", "UpdateCheckRun" }
     /\ \E k \in 1..Len(last.h.c.calls) : last.h.c.calls[k].op = "GetConfig"
     /\ last.h.q.pubs = 0
     /\ last.h.c.cfgs = configsKV

\* the last delivery of a pull_request work item, with the version 1 file of an earlier
\* sha in the configs bucket: the item is dropped and the bucket still holds that file
C30_Witness ==
  /\ DeliveryHandled
  /\ UnknownVersion
  /\ ~(Filtered \/ Malformed)
  /\ last.m.kind = "pull_request"
  /\ last.m.deliveries = MaxDeliver
  /\ configsKV # <<>>
  /\ last.h.c.cfgs = configsKV
  /\ last.h.err = "error"
  /\ last.after.st = "dropped"

-----------------------------------------------------------------------------
(* Properties of the deletion of the head ref *)

\* the position of the first call of op of the run, 0 if there is none
FirstCall(calls, op) ==
  IF \E k \in 1..Len(calls) : calls[k].op = op
  THEN CHOOSE k \in 1..Len(calls) : calls[k].op = op /\ \A j \in 1..(k - 1) : calls[j].op # op
  ELSE 0

\* delete-ref follows a merge mutation of the same run that succeeded, under a config
\* with merge.deleteBranch
DeleteFollowsMerge ==
  Called("DeleteRef") =>
    /\ ConfigAt(baseSha).Merge.DeleteBranch
    /\ \E k \in 1..(FirstCall(last.calls, "DeleteRef") - 1) :
          last.calls[k].op = "MergePullRequest" /\ last.calls[k].ok
    /\ Cardinality({ k \in 1..Len(last.calls) : last.calls[k].op = "DeleteRef" }) = 1

\* the run whose delete-ref failed ends with an error that is nacked with retry_wait
FailedDeleteIsNacked ==
  (Called("DeleteRef") /\ ~Succeeded("DeleteRef")) =>
     last.err = "error" /\ last.ack = AckOp("NakWithDelay", RetryWait)

\* a delivery of the work item of a pull request that is merged already makes no merge
\* mutation and no delete-ref call and is acked
NoSecondMerge ==
  (MergeablePR.ID \in merged /\ last'.op = "pull_request") =>
     /\ \A k \in 1..Len(last'.calls) :
           last'.calls[k].op \notin {"MergePullRequest", "DeleteRef"}
     /\ last'.ack = AckOp("Ack", 0)
     /\ msgs'[last'.idx].st = "acked"

\* C31: delete-ref is called only after the merge mutation of the same delivery succeeded
\* and only under a config with merge.deleteBranch; when it fails the work item is nacked
\* with retry_wait, no work item is delivered more than max_deliver times, and the
\* delivery that follows finds the pull request merged: it makes no further merge
\* mutation and is acked
C31_DeleteOnlyAfterMerge ==
  /\ [](DeleteFollowsMerge /\ FailedDeleteIsNacked
         /\ \A i \in 1..Len(msgs) : msgs[i].deliveries <= MaxDeliver)
  /\ [][NoSecondMerge]_vars

\* the first delivery merged and failed to delete the ref; the second found the pull
\* request merged and was acked
C31_Witness ==
  /\ last.op = "pull_request"
  /\ last.path = "not open"
  /\ MergeablePR.ID \in merged
  /\ ConfigAt(baseSha).Merge.DeleteBranch
  /\ msgs[1].deliveries = 2
  /\ msgs[1].st = "acked"

-----------------------------------------------------------------------------
(* Properties of the recency grace *)

\* the last commit of the snapshot is younger than duration_to_wait_after_update_branch
RecentSnapshot ==
  /\ last.details.LastCommitTime # NoTime
  /\ last.at - last.details.LastCommitTime < DurationToWaitAfterUpdateBranch

\* the run got as far as the merge step and nothing but the age of the commit stands
\* against the merge: the snapshot is open, has a commit and a merge label, no update was
\* made, and no skip condition triggers once the commit is old enough
MergeWouldGoAhead ==
  /\ last.op = "pull_request"
  /\ IsOpen(last.details)
  /\ last.details.LastCommitSha # ""
  /\ last.details.LastCommitTime # NoTime
  /\ ~Called("UpdatePullRequest")
  /\ last.path \notin {"update stopped", "update error"}
  /\ ContainsOneOf(ConfigAt(baseSha).Merge.Labels, last.details.Labels) # ""
  /\ shouldSkipMerge(JsonRoundTrip(ConfigAt(baseSha)), last.details,
                     last.details.LastCommitTime + DurationToWaitAfterUpdateBranch)
       = [NoSkip EXCEPT !.Title = NotMerging(@)]

\* C32: when the merge would go ahead, required checks or none, and the last commit is
\* younger than duration_to_wait_after_update_branch, no merge mutation is made and the
\* run returns a push-back whose delay is the remaining wait; no such commit is merged
C32_RecencyGrace ==
  /\ (MergeWouldGoAhead /\ RecentSnapshot) =>
        /\ ~Called("MergePullRequest")
        /\ last.err = "pushback"
        /\ last.ack = AckOp("NakWithDelay",
                            (last.details.LastCommitTime + DurationToWaitAfterUpdateBranch)
                              - last.at)
  /\ (last.op = "pull_request" /\ Called("MergePullRequest")) => ~RecentSnapshot

\* with required checks in the config the grace is kept
RecencyGraceWithRequiredChecks ==
  ConfigAt(baseSha).Merge.RequiredChecks # <<>> => C32_RecencyGrace

\* the grace was applied: a push-back for a recent commit whose checks pass
RecencyGraceApplied ==
  /\ MergeWouldGoAhead
  /\ RecentSnapshot
  /\ ConfigAt(baseSha).Merge.RequiredChecks # <<>>
  /\ last.err = "pushback"

-----------------------------------------------------------------------------
(* Properties of two runs for the same config and snapshot *)

\* what a run decided at every step: the remote calls it made with the check-run titles
\* it wrote, the return statement it took and the kind of its result
Decision(r) ==
  [ path |-> r.path, err |-> r.err,
    steps |-> [k \in 1..Len(r.c.calls) |-> <<r.c.calls[k].op, r.c.calls[k].title>>] ]

\* at time t the last commit of the snapshot is younger than
\* duration_to_wait_after_update_branch
InGrace(t) ==
  /\ last.details.LastCommitTime # NoTime
  /\ t - last.details.LastCommitTime < DurationToWaitAfterUpdateBranch

\* C33 as stated: two runs with the same config and the same snapshot reach the same
\* decision at every step, whatever their times and map iteration orders.
C33_Original ==
  last.op = "two_runs" => Decision(last.run1) = Decision(last.run2)

\* C33: two runs with the same config and the same snapshot reach the same decision at
\* every step if their times fall on the same side of the recency grace (both before or
\* both after last_commit_time + duration_to_wait_after_update_branch); the order in
\* which the map of the check states is ranged over changes no result of the checks
\* condition, only the order of the lines of its summary
C33_DeterministicUpToGrace ==
  last.op = "two_runs" =>
    /\ InGrace(last.t1) = InGrace(last.t2) => Decision(last.run1) = Decision(last.run2)
    /\ last.checks1.result
         = shouldSkipBecauseOfChecks(ConfigAt(baseSha).Merge, last.details, last.t1)
    /\ last.checks2.result
         = shouldSkipBecauseOfChecks(ConfigAt(baseSha).Merge, last.details, last.t2)
    /\ last.t1 = last.t2 => last.checks1.result = last.checks2.result

\* two runs at different times with different map orders: the summaries list the failed
\* checks in different orders, the decisions are the same
C33_Witness ==
  /\ last.op = "two_runs"
  /\ last.t1 < last.t2
  /\ last.order1 # last.order2
  /\ last.checks1.lines # last.checks2.lines
  /\ last.checks1.result.SkipAction
  /\ Decision(last.run1) = Decision(last.run2)
  /\ \E k \in 1..Len(last.run1.c.calls) : last.run1.c.calls[k].op = "CreateCheckRun"

\* of two runs for a recent commit whose checks pass the earlier defers and the later merges
DeferredThenMerged ==
  /\ last.op = "two_runs"
  /\ InGrace(last.t1) /\ ~InGrace(last.t2)
  /\ last.run1.err = "pushback"
  /\ \E k \in 1..Len(last.run2.c.calls) : last.run2.c.calls[k].op = "MergePullRequest"

-----------------------------------------------------------------------------
(* Properties of concurrent getAccessToken calls *)

\* the workers that created a token in their call
Minters == { i \in 1..MaxCallers : callers[i].minted }

\* C34: when several workers find no usable entry for the repository and create a token
\* at once, every one of them gets a token of its own from GitHub and returns that
\* token; each put replaces the entry by the token of the worker that puts, so that
\* after the puts the bucket holds exactly the token of the last writer, whole and not
\* expired
C34_LastMintedTokenWins ==
  /\ \A i \in Minters :
        /\ callers[i].token # NoToken
        /\ callers[i].pc = "minted" => callers[i].token.ExpiresAt > now
        /\ \A j \in Minters \ {i} : callers[j].token.Token # callers[i].token.Token
  /\ last.op = "token_put" =>
        /\ accessTokensKV = <<callers[last.idx].token>>
        /\ callers[last.idx].pc = "returned"
        /\ accessTokensKV[1].ExpiresAt >= now
  /\ (Minters # {} /\ \A i \in Minters : callers[i].pc = "returned") =>
        \E i \in Minters : accessTokensKV = <<callers[i].token>>

\* two workers created a token each before either put: both returned their own token,
\* the bucket holds the token of the one that put last
C34_Witness ==
  /\ Minters = 1..MaxCallers
  /\ \A i \in Minters : callers[i].pc = "returned"
  /\ last.op = "token_put"
  /\ last.idx = 1
  /\ accessTokensKV = <<callers[1].token>>
  /\ callers[2].token # callers[1].token

-----------------------------------------------------------------------------
(* Properties of the channels of Consume *)

\* the messages of the subject that were taken from the subscription and not yet handed
\* to handleMessage
FetchedUnhandled(subject) ==
  { k \in 1..Len(msgs) : msgs[k].kind = subject /\ msgs[k].st \in {"taken", "chan"} }

\* a message of the subject could be taken from the subscription
Deliverable(subject) ==
  \E k \in 1..Len(msgs) :
     msgs[k].kind = subject /\ msgs[k].st = "pending" /\ msgs[k].availableAt <= now

\* the goroutine of the subject takes no message while it holds one
BlockedPumpTakesNothing ==
  \A subject \in PumpSubjects :
     ~PumpIdle(subject) =>
        \A k \in 1..Len(msgs) :
           (msgs[k].kind = subject /\ msgs[k].st = "pending") => msgs'[k].st # "taken"

\* C35: the channel of a subject never holds more than message_channel_size_per_subject
\* messages, and exactly the messages with st "chan"; the goroutine of the subject holds at
\* most one message and takes no further one from the subscription before it has sent
\* that one, which it does only when the channel has room: at most size + 1 messages of a
\* subject are taken and not yet handed to handleMessage
C35_ChannelBound ==
  /\ [](\A subject \in PumpSubjects :
          /\ Len(callers[subject]) <= MessageChannelSize
          /\ { callers[subject][k] : k \in 1..Len(callers[subject]) }
               = { k \in 1..Len(msgs) : msgs[k].kind = subject /\ msgs[k].st = "chan" }
          /\ Cardinality(FetchedUnhandled(subject) \ { k \in 1..Len(msgs) : msgs[k].st = "chan" })
               <= 1
          /\ Cardinality(FetchedUnhandled(subject)) <= MessageChannelSize + 1)
  /\ [][BlockedPumpTakesNothing]_vars

\* the channel of pull_request is full, its goroutine holds one more message and a
\* further message of the subject waits in the stream
C35_Witness ==
  /\ Len(callers["pull_request"]) = MessageChannelSize
  /\ ~PumpIdle("pull_request")
  /\ Cardinality(FetchedUnhandled("pull_request")) = MessageChannelSize + 1
  /\ Deliverable("pull_request")

-----------------------------------------------------------------------------
(* Properties of Shutdown *)

\* Shutdown is blocked in its send and no select loop will ever receive from the channel
ShutdownStuck ==
  /\ callers.main = "shutdown"
  /\ callers.ch = "nil" \/ callers.consume = "returned"

\* C36: Shutdown returns whenever it is called: while the select loop is idle, while a
\* handler runs, before Consume has entered its loop and after Consume has returned
C36_ShutdownReturns == (callers.main = "shutdown") ~> (callers.main = "done")

\* Shutdown returns when it is called while the select loop runs and the loop does not
\* end on a subscription error
ShutdownReturnsWhileLoopRuns ==
  (callers.main = "shutdown" /\ callers.ch = "made")
     ~> (callers.main = "done" \/ callers.consume = "returned")

-----------------------------------------------------------------------------
(* Properties of the check states *)

\* the names <app_name>/<run_name> of the check runs of the last commit that are not
\* completed
RunsNotCompleted ==
  { p[1].App \o "/" \o p[2].Name :
      p \in { q \in CheckSuitesReported \X CheckRunsReported :
                /\ \E i \in 1..Len(last.commit.CheckSuites) :
                      /\ last.commit.CheckSuites[i] = q[1]
                      /\ \E k \in 1..Len(q[1].CheckRuns) : q[1].CheckRuns[k] = q[2]
                /\ q[2].Status # "COMPLETED" } }

\* an entry of requiredChecks matches the name
RequiredCheckMatches(name) ==
  \E i \in 1..Len(ConfigAt(baseSha).Merge.RequiredChecks) :
     Equal(ConfigAt(baseSha).Merge.RequiredChecks[i], name)

\* no other status context, check suite or check run of the commit has the name of a
\* check run that is not completed
NamesNotShared ==
  \A n \in RunsNotCompleted :
     Cardinality({ k \in 1..Len(CheckStateWrites(last.commit)) :
                     CheckStateWrites(last.commit)[k].name = n }) = 1

\* C37: a check run that is not completed is recorded in details.CheckStates as PENDING
\* under <app_name>/<run_name>, and a delivery that sees such a check run matched by an
\* entry of requiredChecks does not merge
C37_PendingRunBlocksMerge ==
  last.op = "pull_request" =>
     \A n \in RunsNotCompleted :
        /\ n \in DOMAIN last.details.CheckStates
        /\ last.details.CheckStates[n] = "PENDING"
        /\ RequiredCheckMatches(n) => ~Called("MergePullRequest")

\* the same when no other entry of the commit shares the name of the check run
PendingRunBlocksMergeWhenNamesNotShared ==
  (last.op = "pull_request" /\ NamesNotShared) =>
     \A n \in RunsNotCompleted :
        /\ n \in DOMAIN last.details.CheckStates
        /\ last.details.CheckStates[n] = "PENDING"
        /\ RequiredCheckMatches(n) => ~Called("MergePullRequest")

\* a required check run that is not completed was seen and the delivery did not merge
PendingRunBlockedMerge ==
  /\ last.op = "pull_request"
  /\ NamesNotShared
  /\ \E n \in RunsNotCompleted : RequiredCheckMatches(n)
  /\ WroteCheckRun("not merging: check(s) did not succeeded")
  /\ ~Called("MergePullRequest")

-----------------------------------------------------------------------------
(* Properties of the triggers of one pull request *)

\* a work item got to its handler at or after the time of the last accepted trigger
TriggerServed == callers.handled # NoTime /\ callers.handled >= callers.accepted

\* the last trigger was accepted, no work item got to a handler since, and the stream
\* holds no work item that could
TriggerLost ==
  /\ callers.accepted # NoTime
  /\ ~TriggerServed
  /\ \A k \in 1..Len(msgs) : msgs[k].st \in {"acked", "dropped"}

\* QueueMessage answered with success and the stream discarded its message as a
\* duplicate of a work item that was handled before
DuplicateOfHandled ==
  /\ last.op = "trigger"
  /\ last.err = "nil"
  /\ last.pubs = 0
  /\ \A k \in 1..Len(msgs) : msgs[k].st = "acked"

\* C38: for every trigger QueueMessage accepted at a time t, a work item of the
\* fingerprint gets to its handler at a time >= t (a work item that serves the last
\* accepted trigger serves the ones before it)
C38_NoTriggerLost == (callers.accepted # NoTime /\ ~TriggerServed) ~> TriggerServed

-----------------------------------------------------------------------------
(* Properties of a failed enqueue *)

\* the webhook made one call of QueueMessage, the call returned an error and the ingress
\* answered 500
EnqueueFailed ==
  /\ last.op = "webhook"
  /\ last.status = 500
  /\ last.req.event \in {"push", "pull_request", "pull_request_review"}

\* the step is a webhook whose one call of QueueMessage returned an error, and the
\* stream holds the same work items as before
FailedEnqueuePublishesNothing ==
  EnqueueFailed' => msgs' = msgs

\* C39: when QueueMessage returns an error, so that the ingress answers 500, no work
\* item was published by that call
C39_ErrorMeansNothingPublished == [][FailedEnqueuePublishesNothing]_vars

\* the ingress answered 500 and the work item of the request is in the stream
PublishedAndFailed ==
  /\ EnqueueFailed
  /\ last.pubs = 1
  /\ msgs # <<>>
  /\ msgs[Len(msgs)].pubAt = last.at
  /\ msgs[Len(msgs)].Data.Repository = last.req.body.Repository

-----------------------------------------------------------------------------
(* Properties of the acknowledgements of one delivery *)

\* the return statements of handleMessage
AckPaths ==
  { "bad header", "not before", "decode error", "private", "not allowed" }

\* C40: handleMessage calls exactly one of Ack, Nak and NakWithDelay on the message it was
\* given, exactly once, whichever way it returns: message not yet due, unparsable
\* not-before header, undecodable payload, repository filtered, handler success,
\* push-back, other error
C40_ExactlyOneAck ==
  last.op = "handled" =>
     /\ Len(last.acks) = 1
     /\ last.acks[1].op \in {"Ack", "Nak", "NakWithDelay"}
     /\ last.acks[1] = last.h.ack

\* a message with an unparsable not-before header was handled: one Nak
C40_Witness ==
  /\ last.op = "handled"
  /\ last.h.path = "bad header"
  /\ last.acks = <<AckOp("Nak", 0)>>

\* the handler pushed the message back: one NakWithDelay with the delay of the push-back
PushBackNakedOnce ==
  /\ last.op = "handled"
  /\ last.h.err = "pushback"
  /\ last.h.path \notin AckPaths
  /\ Len(last.acks) = 1
  /\ last.acks[1].op = "NakWithDelay"
  /\ last.acks[1].delay # RetryWait

====
